---- MODULE Spec2Model ----
(***************************************************************************)
(* Model of ProjectGenerator.generateProject, the generation pipeline of   *)
(* mock-masterpiece-maker, together with the adapters it awaits.           *)
(*                                                                         *)
(* Two revisions of projectGenerator.ts are in the repository: the one     *)
(* with five fixed steps (src/src/services/projectGenerator.ts) and the    *)
(* one with an additional "setup" step (src/unnamed/part_000).  The        *)
(* variable withSetup selects the revision a run executes.                 *)
(*                                                                         *)
(* Strings whose content the code inspects (the prompt, the keyword        *)
(* table) are sequences of UTF-16 code units.  Step objects live in a      *)
(* heap (objs); the steps array and every array handed to onStepUpdate are *)
(* sequences of references into that heap, as [...steps] copies the array  *)
(* but not the objects.                                                    *)
(***************************************************************************)
EXTENDS Integers, Sequences, FiniteSets, TLC

\* ------------------------------------------------------------------ bounds

\* analysis.pages has between 0 and MaxPages entries
MaxPages == 2

\* commitMultipleFiles is given between 0 and MaxFiles files
MaxFiles == 3

\* detectBackendNeeds is tried on every prompt of at most MaxPromptLen units
MaxPromptLen == 3

\* ------------------------------------------------- strings and the detector

\* String.prototype.toLowerCase on one code unit (ASCII letters only; the
\* Hangul syllables of the keyword table have no case)
LowerUnit(c) == IF c >= 65 /\ c <= 90 THEN c + 32 ELSE c

\* String.prototype.toLowerCase
ToLowerCase(s) == [i \in 1..Len(s) |-> LowerUnit(s[i])]

\* String.prototype.includes
Includes(s, k) ==
    \E o \in 0..(Len(s) - Len(k)) : \A j \in 1..Len(k) : s[o + j] = k[j]

\* the keyword table of detectBackendNeeds, in source order
backendKeywords ==
    <<
       <<47196,44536,51064>>,
       <<108,111,103,105,110>>,
       <<97,117,116,104>>,
       <<51064,51613>>,
       <<97,117,116,104,101,110,116,105,99,97,116,105,111,110>>,
       <<54924,50896,44032,51077>>,
       <<115,105,103,110,117,112>>,
       <<114,101,103,105,115,116,101,114>>,
       <<46321,47197>>,
       <<45936,51060,53552,48288,51060,49828>>,
       <<100,97,116,97,98,97,115,101>>,
       <<100,98>>,
       <<51200,51109>>,
       <<49324,50857,51088>>,
       <<117,115,101,114>>,
       <<44228,51221>>,
       <<97,99,99,111,117,110,116>>,
       <<44172,49884,54032>>,
       <<98,111,97,114,100>>,
       <<45843,44544>>,
       <<99,111,109,109,101,110,116>>,
       <<52292,54021>>,
       <<99,104,97,116>>,
       <<47700,49884,51648>>,
       <<109,101,115,115,97,103,101>>,
       <<44208,51228>>,
       <<112,97,121,109,101,110,116>>,
       <<51452,47928>>,
       <<111,114,100,101,114>>,
       <<54028,51068,32,50629,47196,46300>>,
       <<117,112,108,111,97,100>>,
       <<51060,48120,51648,32,50629,47196,46300>>
    >>

\* detectBackendNeeds without prompt.toLowerCase(): prompt.includes(keyword)
detectBackendNeedsCaseSensitive(prompt) ==
    \E n \in DOMAIN backendKeywords :
        Includes(prompt, ToLowerCase(backendKeywords[n]))

\* ProjectGenerator.detectBackendNeeds
detectBackendNeeds(prompt) ==
    \E n \in DOMAIN backendKeywords :
        Includes(ToLowerCase(prompt), ToLowerCase(backendKeywords[n]))

\* "I need a login and signup page"
PromptLogin ==
    <<73,32,110,101,101,100,32,97,32,108,111,103,105,110,32,97,110,100,32,
      115,105,103,110,117,112,32,112,97,103,101>>

\* "a static portfolio site"
PromptStatic ==
    <<97,32,115,116,97,116,105,99,32,112,111,114,116,102,111,108,105,111,32,
      115,105,116,101>>

\* "My DB shop"
PromptUpper == <<77,121,32,68,66,32,115,104,111,112>>

\* the prompts a run is started with
Prompts == {PromptLogin, PromptStatic, PromptUpper}

\* ------------------------------------------------------------------- state

VARIABLES
    withSetup,        \* TRUE: the revision with the "setup" step
    vercelService,    \* this.vercelService is set (vercelToken was given)
    supabaseService,  \* this.supabaseService is set (supabaseToken was given)
    userPrompt,       \* the prompt argument of generateProject
    githubHtmlUrl,    \* GitHub: the html_url it gives the repository it creates
    objs,             \* heap of step objects: ref -> [id, status, details]
    steps,            \* the steps array: sequence of refs into objs
    received,         \* arrays handed to onStepUpdate (sequences of refs)
    seen,             \* what onStepUpdate read from each array when called
    pc,               \* position of generateProject
    inflight,         \* the awaited collaborator call, "none" if none
    calls,            \* log of collaborator calls issued, in order
    outcomes,         \* log of how the awaited calls settled, in order
    analysis,         \* const analysis
    repoInfo,         \* const repoInfo
    supabaseProject,  \* let supabaseProject
    vercelProject,    \* const vercelProject
    deployment,       \* const deployment
    currentStepIndex, \* let currentStepIndex (0-based, -1 before line 99)
    pageIndex,        \* number of pages the for-of loop has finished
    structureFiles,   \* const structureFiles
    allFiles,         \* const allFiles
    pageFiles,        \* const pageFiles of every loop iteration so far
    error,            \* the error caught at line 188, "none" if none
    result,           \* value generateProject resolved with, "none" if none
    vRequests,        \* requests the run has sent to the Vercel API, in order
    cFiles,           \* commitMultipleFiles: the files argument
    cpc,              \* commitMultipleFiles: position, "idle" when not run
    requests,         \* GitHub API requests issued by it, in order
    blobState,        \* per file: the upload is "pending", "ok" or "failed"
    blobs,            \* per file: the tree entry its upload resolved with
    currentCommitSha, \* const currentCommitSha
    currentTreeSha,   \* const currentTreeSha
    newTree,          \* const newTree (its sha)
    newCommit,        \* const newCommit (its sha)
    cError,           \* the error commitMultipleFiles rethrows, or "none"
    branchTip,        \* GitHub: the commit refs/heads/main points at
    gitBlobs,         \* GitHub: blob objects of the repository
    gitTrees,         \* GitHub: tree objects created in the repository
    gitCommits,       \* GitHub: commit objects created in the repository
    settled,          \* ... file indices in the order the uploads settled
    dPrompt,          \* detectBackendNeeds called alone: its prompt argument
    dpc,              \* ... "idle", "call" or "returned"
    dResult,          \* ... the value it returned
    otherSteps,       \* a second, concurrent run: its steps array (refs)
    otherSeen,        \* ... what its onStepUpdate read at each call
    otherPc,          \* ... "idle", "entry", "running", "returned", "threw"
    otherError,       \* ... the error it failed with, "none" if none
    otherResult       \* ... the value it resolved with, "none" if none

\* the variables of a run of generateProject
pipeline ==
    <<withSetup, vercelService, supabaseService, userPrompt, githubHtmlUrl,
      objs, steps,
      received, seen, pc, inflight, calls, outcomes, analysis, repoInfo,
      supabaseProject, vercelProject, deployment, currentStepIndex,
      pageIndex, structureFiles, allFiles, pageFiles, error, result,
      vRequests>>

\* the variables of a run of commitMultipleFiles and of the repository
composer ==
    <<cFiles, cpc, requests, blobState, blobs, currentCommitSha,
      currentTreeSha, newTree, newCommit, cError, branchTip, gitBlobs,
      gitTrees, gitCommits, settled>>

\* the state of the blob uploads of a commitMultipleFiles call
uploads == <<blobState, blobs, settled>>

\* the variables of a call of detectBackendNeeds on its own
detector == <<dPrompt, dpc, dResult>>

\* the locals of a second run of generateProject (its step objects are in
\* objs, the one heap both runs allocate from)
other == <<otherSteps, otherSeen, otherPc, otherError, otherResult>>

vars == <<pipeline, composer, detector, other>>

\* what the statements of generateProject leave alone, its calls of
\* commitMultipleFiles and of the Vercel adapter apart
outside == <<composer, detector, other, vRequests>>

\* what a run of commitMultipleFiles leaves alone
apart == <<pipeline, detector, other>>

\* what is fixed when a run starts: the generator's configuration, the
\* prompt, and the URL GitHub will give the repository
config ==
    <<withSetup, vercelService, supabaseService, userPrompt, githubHtmlUrl>>

files == <<structureFiles, allFiles, pageFiles>>

snapshots == <<received, seen>>

\* values returned by the collaborators
locals == <<analysis, repoInfo, supabaseProject, vercelProject, deployment>>

\* ------------------------------------------------------- steps and snapshots

\* a freshly created step object (title and description are constant texts)
NewStep(id, status) == [id |-> id, status |-> status, details |-> << >>]

\* the step literals of the steps array, lines 32-63 (part_000: 35-72)
PlanLiteral(setup) ==
    IF setup
    THEN << NewStep("analyze", "progress"), NewStep("repo", "pending"),
            NewStep("setup", "pending"), NewStep("structure", "pending"),
            NewStep("generate", "pending"), NewStep("deploy", "pending") >>
    ELSE << NewStep("analyze", "progress"), NewStep("repo", "pending"),
            NewStep("structure", "pending"), NewStep("generate", "pending"),
            NewStep("deploy", "pending") >>

\* the step pushed when this.vercelService is set, lines 66-73
VercelStep == NewStep("vercel", "pending")

\* the objects an array of refs points to, read through heap h
Deref(h, arr) == [i \in DOMAIN arr |-> h[arr[i]]]

\* [...steps]: a new array holding the same references
SpreadCopy(arr) == [i \in DOMAIN arr |-> arr[i]]

\* onStepUpdate([...steps]) with the heap as it is after the assignments h
OnStepUpdate(h) ==
    /\ received' = Append(received, SpreadCopy(steps))
    /\ seen' = Append(seen, Deref(h, steps))

\* steps[i].status = s; steps[i].details = d   (i is 0-based as in the code)
Assign(h, i, s, d) ==
    [h EXCEPT ![steps[i + 1]] = [@ EXCEPT !.status = s, !.details = d]]

\* steps[i].status = s
AssignStatus(h, i, s) ==
    [h EXCEPT ![steps[i + 1]] = [@ EXCEPT !.status = s]]

\* steps[i] is an object (not undefined)
Defined(i) == (i + 1) \in DOMAIN steps

\* steps.findIndex(pred), 0-based, -1 when no element matches; match[i] is
\* the value of pred on steps[i - 1]
FindIndex(match) ==
    IF \E i \in DOMAIN match : match[i]
    THEN (CHOOSE i \in DOMAIN match :
              /\ match[i]
              /\ \A j \in 1..(i - 1) : ~match[j]) - 1
    ELSE -1

\* (step) => step.status === "progress", on every element of steps
IsProgress(h) == [i \in DOMAIN steps |-> h[steps[i]].status = "progress"]

\* step => step.id === "vercel", on every element of steps
IsVercel(h) == [i \in DOMAIN steps |-> h[steps[i]].id = "vercel"]

\* the message of the TypeError thrown by steps[i].status = ... when steps[i]
\* is undefined
TypeErrorMessage == "Cannot set properties of undefined (setting 'status')"

\* ------------------------------------------------- collaborators' values

\* a local that has not been assigned yet
NoAnalysis == [projectName |-> "undefined", description |-> "undefined",
               pages |-> << >>]

NoRepoInfo == [name |-> "undefined", full_name |-> "undefined",
               html_url |-> "undefined"]

NoSupabaseProject == [id |-> "undefined", name |-> "undefined"]

NoVercelProject == [id |-> "undefined", name |-> "undefined"]

NoDeployment == [url |-> "undefined"]

\* the pages the model may answer with, in order
PageNames == <<"page1", "page2", "page3">>

\* JSON.parse(responseText) of analyzePrompt with n pages, line 143
ParsedAnalysis(n) ==
    [projectName |-> "my-site", description |-> "my site",
     pages |-> SubSeq(PageNames, 1, n)]

\* the default analysis analyzePrompt returns from its catch, lines 148-168
DefaultAnalysis ==
    [projectName |-> "generated-website", description |-> "default site",
     pages |-> << "main" >>]

\* html_url of GitHub's answer to POST /user/repos: the repository's page
RepoPage == "https://github.com/owner/repo"

\* what html_url may be if GitHub's answer is not trusted: the repository's
\* page, a URL without a repository segment, a URL of another host
RepoUrls ==
    {RepoPage, "https://github.com/owner", "https://gitlab.com/owner/repo"}

\* the RepoInfo createRepository builds from GitHub's answer, lines 168-174
CreatedRepo(name, url) ==
    [name |-> name, full_name |-> "owner/repo", html_url |-> url]

\* the UTF-16 code units of a URL, which String.prototype.match reads
CodeUnits(url) ==
    CASE url = "https://github.com/owner/repo" ->
           <<104,116,116,112,115,58,47,47,103,105,116,104,117,98,46,99,111,
             109,47,111,119,110,101,114,47,114,101,112,111>>
      [] url = "https://github.com/owner" ->
           <<104,116,116,112,115,58,47,47,103,105,116,104,117,98,46,99,111,
             109,47,111,119,110,101,114>>
      [] url = "https://gitlab.com/owner/repo" ->
           <<104,116,116,112,115,58,47,47,103,105,116,108,97,98,46,99,111,
             109,47,111,119,110,101,114,47,114,101,112,111>>
      [] OTHER -> << >>

\* "github.com/", the literal the regular expression of line 184 starts with
GitHubHost == <<103,105,116,104,117,98,46,99,111,109,47>>

\* "/"
Slash == 47

\* ".git"
DotGit == <<46,103,105,116>>

\* [^\/]+ tried at position p of s (1-based): the number of units it takes,
\* which is the longest run of units other than "/" (0: no match)
RECURSIVE SegmentLen(_, _)
SegmentLen(s, p) ==
    IF p > Len(s) \/ s[p] = Slash THEN 0 ELSE 1 + SegmentLen(s, p + 1)

\* /github\.com\/([^\/]+)\/([^\/]+)/ matches s at offset o (0-based)
MatchAt(s, o) ==
    LET p == o + Len(GitHubHost) + 1
        q == p + SegmentLen(s, p) + 1
    IN /\ o + Len(GitHubHost) <= Len(s)
       /\ \A j \in 1..Len(GitHubHost) : s[o + j] = GitHubHost[j]
       /\ SegmentLen(s, p) >= 1
       /\ p + SegmentLen(s, p) <= Len(s)
       /\ SegmentLen(s, q) >= 1

\* githubRepoUrl.match(...) is not null, line 185
RepoMatch(s) == \E o \in 0..Len(s) : MatchAt(s, o)

\* the offset (0-based) of the leftmost match
FirstMatch(s) ==
    CHOOSE k \in 0..Len(s) :
        MatchAt(s, k) /\ \A m \in 0..(k - 1) : ~MatchAt(s, m)

\* the two groups of the leftmost match, line 189: the first starts at
\* position p and the second after the "/" that ends the first
Captures(s) ==
    CHOOSE c \in
        { [owner |-> SubSeq(s, p, p + a - 1),
           repo |-> SubSeq(s, p + a + 1, p + a + SegmentLen(s, p + a + 1))] :
            <<p, a>> \in
               { <<n, SegmentLen(s, n)>> :
                    n \in {FirstMatch(s) + Len(GitHubHost) + 1} } } : TRUE

\* String.prototype.replace(k, ''): the first occurrence of k is removed
ReplaceFirst(s, k) ==
    IF Includes(s, k)
    THEN LET o == CHOOSE n \in 0..(Len(s) - Len(k)) :
                     /\ \A j \in 1..Len(k) : s[n + j] = k[j]
                     /\ \A m \in 0..(n - 1) :
                           \E j \in 1..Len(k) : s[m + j] # k[j]
         IN SubSeq(s, 1, o) \o SubSeq(s, o + Len(k) + 1, Len(s))
    ELSE s

\* the request importGitHubRepository sends, lines 189-207 (projectName is
\* never empty here, so finalProjectName is projectName)
ImportRequest(s, projectName) ==
    [endpoint |-> "POST /v9/projects",
     source |-> Captures(s).owner \o <<Slash>>
                  \o ReplaceFirst(Captures(s).repo, DotGit),
     name |-> projectName]

\* the request triggerDeployment sends, lines 214-225
DeploymentRequest(projectId) ==
    [endpoint |-> "POST /v13/deployments", source |-> << >>,
     name |-> projectId]

\* ProjectGenerator.generateSetupFiles: the paths of the files it returns
generateSetupFiles ==
    << "package.json", "vite.config.ts", "tailwind.config.ts",
       "components.json", "src/lib/utils.ts", "src/index.css",
       "postcss.config.js", "tsconfig.json", "tsconfig.app.json",
       "tsconfig.node.json" >>

\* file lists generateProjectStructure may resolve with (paths only)
StructureOutputs ==
    { << "package.json" >>,
      << "package.json", "src/app/layout.tsx" >> }

\* file lists generatePageCode may resolve with for a page: generated files,
\* or the one default file of its catch (every page may yield the same path)
PageOutputs(page) ==
    { << "src/app/page.tsx" >>,
      << "src/app/page.tsx", "src/components/" \o page >> }

\* the VercelDeployment triggerDeployment resolves with
DeploymentOf(project) == [url |-> project.name \o ".vercel.app"]

\* GeminiService.getDefaultProjectStructure: the paths of the files the
\* catch of generateProjectStructure answers with
getDefaultProjectStructure(project) ==
    << "package.json", "next.config.js", "tsconfig.json",
       "tailwind.config.ts", "components.json", "src/app/layout.tsx",
       "src/app/globals.css", "src/lib/utils.ts", ".gitignore",
       "postcss.config.js" >>
    \o (IF project # NoSupabaseProject
        THEN << "src/lib/supabase.ts", ".env.local.example" >>
        ELSE << >>)

\* the one file the catch of generatePageCode answers with, lines 273-279
\* (the page of the default analysis has path "/")
DefaultPage(page) ==
    IF page = "main" THEN << "src/app/page.tsx" >>
    ELSE << "src/app/" \o page \o "/page.tsx" >>

\* ids the Supabase API may give a new project
SupabaseIds == {"ref-a", "ref-b"}

\* ids the Vercel API may give a new project
VercelIds == {"prj-a", "prj-b"}

\* messages of the errors the adapters' request methods throw
GitHubError == "GitHub API Error"

SupabaseError == "Supabase API Error"

VercelError == "Vercel API Error"

\* message of the Error importGitHubRepository throws at line 186
InvalidUrlError == "Invalid GitHub repository URL"

\* one entry of the call log
Call(name, arg) == [name |-> name, arg |-> arg]

\* sha of the commit auto_init creates, and of its root tree
InitialCommit == "commit0"

InitialTree == "tree0"

\* the sha GitHub answers a blob upload with: blobs are content-addressed
BlobSha(content) == "blob:" \o content

\* the element files.map builds from an upload's answer, lines 237-242
TreeEntry(file, sha) ==
    [path |-> file.path, mode |-> "100644", type |-> "blob", sha |-> sha]

\* sha GitHub gives the tree and the commit commitMultipleFiles creates
NewTreeSha == "tree1"

NewCommitSha == "commit1"

\* -------------------------------------------------------------------- Init

\* the repository as createRepository leaves it (auto_init: one commit on
\* main) and commitMultipleFiles not running
ComposerIdle ==
    /\ cFiles = << >>
    /\ settled = << >>
    /\ cpc = "idle"
    /\ requests = << >>
    /\ blobState = << >>
    /\ blobs = << >>
    /\ currentCommitSha = "undefined"
    /\ currentTreeSha = "undefined"
    /\ newTree = "undefined"
    /\ newCommit = "undefined"
    /\ cError = "none"
    /\ branchTip = InitialCommit
    /\ gitBlobs = {}
    /\ gitTrees = {}
    /\ gitCommits = {}

\* detectBackendNeeds is not being called on its own
DetectorIdle ==
    /\ dPrompt = << >>
    /\ dpc = "idle"
    /\ dResult = FALSE

\* there is no second run
OtherIdle ==
    /\ otherSteps = << >>
    /\ otherSeen = << >>
    /\ otherPc = "idle"
    /\ otherError = "none"
    /\ otherResult = "none"

\* generateProject has been called on a generator with any configuration
\* (the URL GitHub will answer with is said by the specification)
RunEntry ==
    /\ withSetup \in BOOLEAN
    /\ vercelService \in BOOLEAN
    /\ supabaseService \in BOOLEAN
    /\ userPrompt \in Prompts
    /\ objs = << >>
    /\ steps = << >>
    /\ received = << >>
    /\ seen = << >>
    /\ pc = "entry"
    /\ inflight = "none"
    /\ calls = << >>
    /\ outcomes = << >>
    /\ analysis = NoAnalysis
    /\ repoInfo = NoRepoInfo
    /\ supabaseProject = NoSupabaseProject
    /\ vercelProject = NoVercelProject
    /\ deployment = NoDeployment
    /\ currentStepIndex = -1
    /\ pageIndex = 0
    /\ structureFiles = << >>
    /\ allFiles = << >>
    /\ pageFiles = << >>
    /\ error = "none"
    /\ result = "none"
    /\ vRequests = << >>

Init ==
    /\ ComposerIdle
    /\ DetectorIdle
    /\ OtherIdle
    /\ RunEntry
    /\ githubHtmlUrl = RepoPage

\* ----------------------------------------------------------------- actions

\* BuildPlan pushing the vercel step whether or not this.vercelService is set
BuildPlanAlwaysVercel ==
    /\ pc = "entry"
    /\ LET plan == Append(PlanLiteral(withSetup), VercelStep)
       IN /\ objs' = plan
          /\ steps' = [i \in DOMAIN plan |-> i]
          /\ received' = Append(received, [i \in DOMAIN plan |-> i])
          /\ seen' = Append(seen, plan)
    /\ inflight' = "analyzePrompt"
    /\ calls' = Append(calls, Call("analyzePrompt", "userPrompt"))
    /\ pc' = "await_analyze"
    /\ UNCHANGED <<config, outside, outcomes, locals, currentStepIndex,
                   pageIndex, files, error, result>>

\* BuildPlan with the step objects kept in one place shared by all runs and
\* reset by each run, instead of being created by the array literal
BuildPlanSharedSteps ==
    /\ pc = "entry"
    /\ LET plan == IF vercelService
                   THEN Append(PlanLiteral(withSetup), VercelStep)
                   ELSE PlanLiteral(withSetup)
       IN /\ objs' = [r \in 1..(IF Len(objs) > Len(plan)
                                THEN Len(objs) ELSE Len(plan)) |->
                         IF r \in DOMAIN plan THEN plan[r] ELSE objs[r]]
          /\ steps' = [i \in DOMAIN plan |-> i]
          /\ received' = Append(received, steps')
          /\ seen' = Append(seen, plan)
    /\ inflight' = "analyzePrompt"
    /\ calls' = Append(calls, Call("analyzePrompt", "userPrompt"))
    /\ pc' = "await_analyze"
    /\ UNCHANGED <<config, outside, outcomes, locals, currentStepIndex,
                   pageIndex, files, error, result>>

\* lines 32-75 and the call of line 80: build the steps array (the literal
\* creates new step objects), hand out the first snapshot, start the analysis
BuildPlan ==
    /\ pc = "entry"
    /\ LET plan == IF vercelService
                   THEN Append(PlanLiteral(withSetup), VercelStep)
                   ELSE PlanLiteral(withSetup)
       IN /\ objs' = objs \o plan
          /\ steps' = [i \in DOMAIN plan |-> Len(objs) + i]
          /\ received' = Append(received, steps')
          /\ seen' = Append(seen, plan)
    /\ inflight' = "analyzePrompt"
    /\ calls' = Append(calls, Call("analyzePrompt", "userPrompt"))
    /\ pc' = "await_analyze"
    /\ UNCHANGED <<config, outside, outcomes, locals, currentStepIndex,
                   pageIndex, files, error, result>>

\* the awaited call settles: how is "ok", "default" (the adapter caught the
\* service's error and answers with its default) or "error" (it throws);
\* step and completed are the step in progress and the completed steps then
Resolved(how) ==
    outcomes' = Append(outcomes,
        [name |-> inflight, how |-> how,
         step |-> FindIndex(IsProgress(objs)),
         completed |-> {i \in DOMAIN steps :
                           objs[steps[i]].status = "completed"}])

\* throw: control passes to the catch clause of line 188 with error msg
Throw(msg) ==
    /\ error' = msg
    /\ inflight' = "none"
    /\ pc' = "catch"

\* issue an awaited collaborator call
Issue(name, arg) ==
    /\ inflight' = name
    /\ calls' = Append(calls, Call(name, arg))

\* StartAt without the onStepUpdate that follows the assignment
StartAtWithoutUpdate(i, name, arg, next) ==
    IF Defined(i)
    THEN /\ objs' = AssignStatus(objs, i, "progress")
         /\ UNCHANGED snapshots
         /\ Issue(name, arg)
         /\ pc' = next
         /\ UNCHANGED error
    ELSE /\ Throw(TypeErrorMessage)
         /\ UNCHANGED <<objs, snapshots, calls>>

\* steps[i].status = "progress"; onStepUpdate([...steps]); then the awaited
\* call.  The assignment throws a TypeError when steps[i] is undefined.
StartAt(i, name, arg, next) ==
    IF Defined(i)
    THEN /\ objs' = AssignStatus(objs, i, "progress")
         /\ OnStepUpdate(objs')
         /\ Issue(name, arg)
         /\ pc' = next
         /\ UNCHANGED error
    ELSE /\ Throw(TypeErrorMessage)
         /\ UNCHANGED <<objs, snapshots, calls>>

\* message of the error generateContent or JSON.parse throws inside the
\* Gemini adapter
GeminiError == "Gemini API Error"

\* ReturnAnalyzePrompt without the catch of lines 144-169: the error of the
\* analysis service reaches generateProject
ReturnAnalyzePromptRethrows ==
    /\ pc = "await_analyze"
    /\ \E ok \in BOOLEAN, n \in 0..MaxPages :
          /\ ~ok => n = 0
          /\ IF ok
             THEN /\ analysis' = ParsedAnalysis(n)
                  /\ Resolved("ok")
                  /\ inflight' = "none"
                  /\ pc' = "analyze_done"
                  /\ UNCHANGED error
             ELSE /\ Throw(GeminiError)
                  /\ Resolved("error")
                  /\ UNCHANGED analysis
    /\ UNCHANGED <<config, outside, objs, steps, snapshots, calls, repoInfo,
                   supabaseProject, vercelProject, deployment,
                   currentStepIndex, pageIndex, files, result>>

\* GeminiService.analyzePrompt resolves: the parsed answer, or the default
\* analysis when generateContent or JSON.parse threw (the adapter catches)
ReturnAnalyzePrompt ==
    /\ pc = "await_analyze"
    /\ \E ok \in BOOLEAN, n \in 0..MaxPages :
          /\ ~ok => n = 0
          /\ analysis' = IF ok THEN ParsedAnalysis(n) ELSE DefaultAnalysis
          /\ Resolved(IF ok THEN "ok" ELSE "default")
    /\ inflight' = "none"
    /\ pc' = "analyze_done"
    /\ UNCHANGED <<config, outside, objs, steps, snapshots, calls, repoInfo,
                   supabaseProject, vercelProject, deployment,
                   currentStepIndex, pageIndex, files, error, result>>

\* CompleteAnalyze without the assignment of line 82: the analyze step keeps
\* its status
CompleteAnalyzeKeepsStatus ==
    /\ pc = "analyze_done"
    /\ objs' = [objs EXCEPT ![steps[1]] =
                   [@ EXCEPT !.details = <<"projectName", analysis.projectName>>]]
    /\ pc' = "repo_start"
    /\ UNCHANGED <<config, outside, outcomes, steps, snapshots, inflight,
                   calls, locals, currentStepIndex, pageIndex, files, error,
                   result>>

\* lines 82-83
CompleteAnalyze ==
    /\ pc = "analyze_done"
    /\ objs' = Assign(objs, 0, "completed",
                      <<"projectName", analysis.projectName>>)
    /\ pc' = "repo_start"
    /\ UNCHANGED <<config, outside, outcomes, steps, snapshots, inflight,
                   calls, locals, currentStepIndex, pageIndex, files, error,
                   result>>

\* lines 84-94
StartRepo ==
    /\ pc = "repo_start"
    /\ StartAt(1, "createRepository", analysis.projectName, "await_repo")
    /\ UNCHANGED <<config, outside, outcomes, steps, locals,
                   currentStepIndex, pageIndex, files, result>>

\* ReturnCreateRepository with one retry: the first failure of the request
\* issues createRepository again instead of throwing
ReturnCreateRepositoryRetries ==
    /\ pc = "await_repo"
    /\ \E ok \in BOOLEAN :
          IF ok
          THEN /\ repoInfo' = CreatedRepo(analysis.projectName, githubHtmlUrl)
               /\ inflight' = "none"
               /\ Resolved("ok")
               /\ pc' = "repo_done"
               /\ UNCHANGED <<error, calls>>
          ELSE IF Cardinality({k \in DOMAIN calls :
                                  calls[k].name = "createRepository"}) < 2
               THEN /\ Issue("createRepository", analysis.projectName)
                    /\ Resolved("error")
                    /\ UNCHANGED <<pc, error, repoInfo>>
               ELSE /\ Throw(GitHubError)
                    /\ Resolved("error")
                    /\ UNCHANGED <<repoInfo, calls>>
    /\ UNCHANGED <<config, outside, objs, steps, snapshots, analysis,
                   supabaseProject, vercelProject, deployment,
                   currentStepIndex, pageIndex, files, result>>

\* GitHubService.createRepository resolves or its request throws
ReturnCreateRepository ==
    /\ pc = "await_repo"
    /\ \E ok \in BOOLEAN :
          IF ok
          THEN /\ repoInfo' = CreatedRepo(analysis.projectName, githubHtmlUrl)
               /\ inflight' = "none"
               /\ Resolved("ok")
               /\ pc' = "repo_done"
               /\ UNCHANGED error
          ELSE /\ Throw(GitHubError)
               /\ Resolved("error")
               /\ UNCHANGED repoInfo
    /\ UNCHANGED <<config, outside, objs, steps, snapshots, calls, analysis,
                   supabaseProject, vercelProject, deployment,
                   currentStepIndex, pageIndex, files, result>>

\* lines 96-99; in the revision with the setup step lines 105-106
CompleteRepo ==
    /\ pc = "repo_done"
    /\ objs' = Assign(objs, 1, "completed", <<"repo", repoInfo.name>>)
    /\ IF withSetup
       THEN /\ pc' = "setup_start"
            /\ UNCHANGED currentStepIndex
       ELSE /\ pc' = "backend_check"
            /\ currentStepIndex' = 2
    /\ UNCHANGED <<config, outside, outcomes, steps, snapshots, inflight,
                   calls, locals, pageIndex, files, error, result>>

\* part_000 lines 107-108
StartSetup ==
    /\ pc = "setup_start"
    /\ objs' = AssignStatus(objs, 2, "progress")
    /\ OnStepUpdate(objs')
    /\ pc' = "setup_run"
    /\ UNCHANGED <<config, outside, outcomes, steps, inflight, calls, locals,
                   currentStepIndex, pageIndex, files, error, result>>

\* part_000 lines 112-117
CompleteSetup ==
    /\ pc = "setup_run"
    /\ objs' = Assign(objs, 2, "completed",
                      <<"setupFiles", ToString(Len(generateSetupFiles))>>)
    /\ currentStepIndex' = 3
    /\ pc' = "backend_check"
    /\ UNCHANGED <<config, outside, outcomes, steps, snapshots, inflight,
                   calls, locals, pageIndex, files, error, result>>

\* CheckBackend testing the detector alone, without && this.supabaseService
CheckBackendDetectorOnly ==
    /\ pc = "backend_check"
    /\ pc' = IF detectBackendNeeds(userPrompt)
             THEN "db_start" ELSE "structure_start"
    /\ UNCHANGED <<config, outside, outcomes, objs, steps, snapshots,
                   inflight, calls, locals, currentStepIndex, pageIndex,
                   files, error, result>>

\* the condition of line 103
CheckBackend ==
    /\ pc = "backend_check"
    /\ pc' = IF detectBackendNeeds(userPrompt) /\ supabaseService
             THEN "db_start" ELSE "structure_start"
    /\ UNCHANGED <<config, outside, outcomes, objs, steps, snapshots,
                   inflight, calls, locals, currentStepIndex, pageIndex,
                   files, error, result>>

\* StartDatabase that splices a new 'database' step into the steps array at
\* currentStepIndex instead of using the step that is there
StartDatabaseSplices ==
    /\ pc = "db_start"
    /\ LET at == currentStepIndex
           spliced == SubSeq(steps, 1, at) \o <<Len(objs) + 1>>
                         \o SubSeq(steps, at + 1, Len(steps))
       IN /\ objs' = Append(objs, NewStep("database", "progress"))
          /\ steps' = spliced
          /\ received' = Append(received, spliced)
          /\ seen' = Append(seen, Deref(objs', spliced))
    /\ Issue("createProject", analysis.projectName)
    /\ pc' = "await_createProject"
    /\ UNCHANGED <<config, outside, outcomes, locals, currentStepIndex,
                   pageIndex, files, error, result>>

\* lines 104-108
StartDatabase ==
    /\ pc = "db_start"
    /\ StartAt(currentStepIndex, "createProject", analysis.projectName,
               "await_createProject")
    /\ UNCHANGED <<config, outside, outcomes, steps, locals,
                   currentStepIndex, pageIndex, files, result>>

\* ReturnCreateProject that swallows the error of createProject: the run
\* goes on to line 111 with supabaseProject undefined
ReturnCreateProjectSwallows ==
    /\ pc = "await_createProject"
    /\ \E orgOk \in BOOLEAN, postOk \in BOOLEAN, id \in SupabaseIds :
          /\ IF orgOk /\ postOk
             THEN /\ supabaseProject' =
                        [id |-> id, name |-> analysis.projectName]
                  /\ Resolved("ok")
             ELSE /\ Resolved("error")
                  /\ UNCHANGED supabaseProject
          /\ inflight' = "none"
          /\ pc' = "db_created"
          /\ UNCHANGED error
    /\ UNCHANGED <<config, outside, objs, steps, snapshots, calls, analysis,
                   repoInfo, vercelProject, deployment, currentStepIndex,
                   pageIndex, files, result>>

\* SupabaseService.createProject resolves, or one of its two requests (the
\* organization lookup, the POST) throws
ReturnCreateProject ==
    /\ pc = "await_createProject"
    /\ \E orgOk \in BOOLEAN, postOk \in BOOLEAN, id \in SupabaseIds :
          IF orgOk /\ postOk
          THEN /\ supabaseProject' = [id |-> id, name |-> analysis.projectName]
               /\ inflight' = "none"
               /\ Resolved("ok")
               /\ pc' = "db_created"
               /\ UNCHANGED error
          ELSE /\ Throw(SupabaseError)
               /\ Resolved("error")
               /\ UNCHANGED supabaseProject
    /\ UNCHANGED <<config, outside, objs, steps, snapshots, calls, analysis,
                   repoInfo, vercelProject, deployment, currentStepIndex,
                   pageIndex, files, result>>

\* CallEnableAuth with createProject of line 109 not awaited: enableAuth is
\* issued while createProject is still in flight
CallEnableAuthUnawaited ==
    /\ pc \in {"await_createProject", "db_created"}
    /\ Issue("enableAuth", supabaseProject.id)
    /\ pc' = "await_enableAuth"
    /\ UNCHANGED <<config, outside, outcomes, objs, steps, snapshots, locals,
                   currentStepIndex, pageIndex, files, error, result>>

\* line 111
CallEnableAuth ==
    /\ pc = "db_created"
    /\ Issue("enableAuth", supabaseProject.id)
    /\ pc' = "await_enableAuth"
    /\ UNCHANGED <<config, outside, outcomes, objs, steps, snapshots, locals,
                   currentStepIndex, pageIndex, files, error, result>>

\* SupabaseService.enableAuth resolves or its request throws
ReturnEnableAuth ==
    /\ pc = "await_enableAuth"
    /\ \E ok \in BOOLEAN :
          IF ok
          THEN /\ inflight' = "none"
               /\ Resolved("ok")
               /\ pc' = "db_done"
               /\ UNCHANGED error
          ELSE /\ Throw(SupabaseError)
               /\ Resolved("error")
    /\ UNCHANGED <<config, outside, objs, steps, snapshots, calls, locals,
                   currentStepIndex, pageIndex, files, result>>

\* lines 113-115
CompleteDatabase ==
    /\ pc = "db_done"
    /\ objs' = Assign(objs, currentStepIndex, "completed",
                      <<"Supabase", supabaseProject.name>>)
    /\ currentStepIndex' = currentStepIndex + 1
    /\ pc' = "structure_start"
    /\ UNCHANGED <<config, outside, outcomes, steps, snapshots, inflight,
                   calls, locals, pageIndex, files, error, result>>

\* lines 119-123
StartStructure ==
    /\ pc = "structure_start"
    /\ StartAt(currentStepIndex, "generateProjectStructure",
               analysis.projectName, "await_structure")
    /\ UNCHANGED <<config, outside, outcomes, steps, locals,
                   currentStepIndex, pageIndex, files, result>>

\* GeminiService.generateProjectStructure resolves: the generated files, or
\* the default structure when the generation threw (the adapter catches)
ReturnGenerateProjectStructure ==
    /\ pc = "await_structure"
    /\ \E ok \in BOOLEAN, out \in StructureOutputs :
          /\ ~ok => out = << "package.json" >>
          /\ structureFiles' = IF ok THEN out
                                ELSE getDefaultProjectStructure(supabaseProject)
          /\ Resolved(IF ok THEN "ok" ELSE "default")
    /\ inflight' = "none"
    /\ pc' = "structure_done"
    /\ UNCHANGED <<config, outside, objs, steps, snapshots, calls, locals,
                   currentStepIndex, pageIndex, allFiles, pageFiles, error, result>>

\* CompleteStructure without the assignment of line 126: the step is
\* completed and has no details
CompleteStructureWithoutDetails ==
    /\ pc = "structure_done"
    /\ objs' = AssignStatus(objs, currentStepIndex, "completed")
    /\ currentStepIndex' = currentStepIndex + 1
    /\ pc' = "generate_start"
    /\ UNCHANGED <<config, outside, outcomes, steps, snapshots, inflight,
                   calls, locals, pageIndex, files, error, result>>

\* lines 125-127
CompleteStructure ==
    /\ pc = "structure_done"
    /\ objs' = Assign(objs, currentStepIndex, "completed",
                      <<"structureFiles", ToString(Len(structureFiles))>>)
    /\ currentStepIndex' = currentStepIndex + 1
    /\ pc' = "generate_start"
    /\ UNCHANGED <<config, outside, outcomes, steps, snapshots, inflight,
                   calls, locals, pageIndex, files, error, result>>

\* lines 130-134 (part_000 line 152 puts the setup files first)
StartGenerate ==
    /\ pc = "generate_start"
    /\ IF Defined(currentStepIndex)
       THEN /\ objs' = AssignStatus(objs, currentStepIndex, "progress")
            /\ OnStepUpdate(objs')
            /\ allFiles' = IF withSetup
                           THEN generateSetupFiles \o structureFiles
                           ELSE structureFiles
            /\ pageIndex' = 0
            /\ pc' = "page_loop"
            /\ UNCHANGED <<inflight, error>>
       ELSE /\ Throw(TypeErrorMessage)
            /\ UNCHANGED <<objs, snapshots, allFiles, pageIndex>>
    /\ UNCHANGED <<config, outside, outcomes, steps, calls, locals,
                   currentStepIndex, structureFiles, pageFiles, result>>

\* lines 136-137: the next page of the for-of loop
CallGeneratePageCode ==
    /\ pc = "page_loop"
    /\ pageIndex < Len(analysis.pages)
    /\ Issue("generatePageCode", analysis.pages[pageIndex + 1])
    /\ pc' = "await_page"
    /\ UNCHANGED <<config, outside, outcomes, objs, steps, snapshots, locals,
                   currentStepIndex, pageIndex, files, error, result>>

\* ReturnGeneratePageCode that pushes only the files whose path is not yet
\* in allFiles
ReturnGeneratePageCodeDedups ==
    /\ pc = "await_page"
    /\ \E ok \in BOOLEAN, out \in PageOutputs(analysis.pages[pageIndex + 1]) :
          /\ ~ok => out = << "src/app/page.tsx" >>
          /\ LET pageOut == IF ok THEN out
                            ELSE DefaultPage(analysis.pages[pageIndex + 1])
                 fresh(f) == \A n \in DOMAIN allFiles : allFiles[n] # f
             IN /\ allFiles' = allFiles \o SelectSeq(pageOut, fresh)
                /\ pageFiles' = Append(pageFiles, pageOut)
          /\ Resolved(IF ok THEN "ok" ELSE "default")
    /\ pageIndex' = pageIndex + 1
    /\ inflight' = "none"
    /\ pc' = "page_loop"
    /\ UNCHANGED <<config, outside, objs, steps, snapshots, calls, locals,
                   currentStepIndex, structureFiles, error, result>>

\* ReturnGeneratePageCode without the catch of lines 269-280: the error of
\* the generation service reaches generateProject
ReturnGeneratePageCodeRethrows ==
    /\ pc = "await_page"
    /\ \E ok \in BOOLEAN, out \in PageOutputs(analysis.pages[pageIndex + 1]) :
          /\ ~ok => out = << "src/app/page.tsx" >>
          /\ IF ok
             THEN /\ allFiles' = allFiles \o out
                  /\ pageFiles' = Append(pageFiles, out)
                  /\ Resolved("ok")
                  /\ pageIndex' = pageIndex + 1
                  /\ inflight' = "none"
                  /\ pc' = "page_loop"
                  /\ UNCHANGED error
             ELSE /\ Throw(GeminiError)
                  /\ Resolved("error")
                  /\ UNCHANGED <<allFiles, pageFiles, pageIndex>>
    /\ UNCHANGED <<config, outside, objs, steps, snapshots, calls, locals,
                   currentStepIndex, structureFiles, result>>

\* GeminiService.generatePageCode resolves (generated files, or the default
\* page when the generation threw); line 138 pushes them
ReturnGeneratePageCode ==
    /\ pc = "await_page"
    /\ \E ok \in BOOLEAN, out \in PageOutputs(analysis.pages[pageIndex + 1]) :
          /\ ~ok => out = << "src/app/page.tsx" >>
          /\ LET pageOut == IF ok THEN out
                            ELSE DefaultPage(analysis.pages[pageIndex + 1])
             IN /\ allFiles' = allFiles \o pageOut
                /\ pageFiles' = Append(pageFiles, pageOut)
          /\ Resolved(IF ok THEN "ok" ELSE "default")
    /\ pageIndex' = pageIndex + 1
    /\ inflight' = "none"
    /\ pc' = "page_loop"
    /\ UNCHANGED <<config, outside, objs, steps, snapshots, calls, locals,
                   currentStepIndex, structureFiles, error, result>>

\* CompleteGenerate reached only when the loop has gone one page past the
\* last page of analysis.pages
CompleteGenerateOffByOne ==
    /\ pc = "page_loop"
    /\ pageIndex > Len(analysis.pages)
    /\ objs' = Assign(objs, currentStepIndex, "completed",
                      <<"allFiles", ToString(Len(allFiles))>>)
    /\ currentStepIndex' = currentStepIndex + 1
    /\ pc' = "commit_start"
    /\ UNCHANGED <<config, outside, outcomes, steps, snapshots, inflight,
                   calls, locals, pageIndex, files, error, result>>

\* lines 141-143, after the last page
CompleteGenerate ==
    /\ pc = "page_loop"
    /\ pageIndex >= Len(analysis.pages)
    /\ objs' = Assign(objs, currentStepIndex, "completed",
                      <<"allFiles", ToString(Len(allFiles))>>)
    /\ currentStepIndex' = currentStepIndex + 1
    /\ pc' = "commit_start"
    /\ UNCHANGED <<config, outside, outcomes, steps, snapshots, inflight,
                   calls, locals, pageIndex, files, error, result>>

\* lines 146-159
StartCommit ==
    /\ pc = "commit_start"
    /\ StartAt(currentStepIndex, "commitMultipleFiles", repoInfo.full_name,
               "await_commit")
    /\ UNCHANGED <<config, outside, outcomes, steps, locals,
                   currentStepIndex, pageIndex, files, result>>

\* the tree commitMultipleFiles creates from the files of the run (a blob
\* is named after the path it was uploaded for)
CommittedTree ==
    [sha |-> NewTreeSha, base_tree |-> InitialTree,
     tree |-> [i \in DOMAIN allFiles |->
                 TreeEntry([path |-> allFiles[i]], BlobSha(allFiles[i]))]]

\* GitHubService.commitMultipleFiles resolves, having created the blobs, the
\* tree and the commit and moved the branch to it, or one of its requests
\* throws and its catch rethrows, the branch being where it was (what it had
\* created by then is reachable from no ref and is left out here)
ReturnCommitMultipleFiles ==
    /\ pc = "await_commit"
    /\ \E ok \in BOOLEAN :
          IF ok
          THEN /\ inflight' = "none"
               /\ Resolved("ok")
               /\ pc' = "commit_done"
               /\ gitBlobs' = gitBlobs \cup
                     {BlobSha(allFiles[i]) : i \in DOMAIN allFiles}
               /\ gitTrees' = gitTrees \cup {CommittedTree}
               /\ gitCommits' = gitCommits \cup
                     {[sha |-> NewCommitSha, tree |-> NewTreeSha,
                       parents |-> <<branchTip>>]}
               /\ branchTip' = NewCommitSha
               /\ UNCHANGED error
          ELSE /\ Throw(GitHubError)
               /\ Resolved("error")
               /\ UNCHANGED <<branchTip, gitBlobs, gitTrees, gitCommits>>
    /\ UNCHANGED <<config, detector, other, vRequests, cFiles, cpc, requests,
                   uploads, currentCommitSha, currentTreeSha, newTree,
                   newCommit, cError, objs, steps, snapshots, calls, locals,
                   currentStepIndex, pageIndex, files, result>>

\* CompleteCommit without the assignments of lines 161-162
CompleteCommitKeepsStatus ==
    /\ pc = "commit_done"
    /\ currentStepIndex' = currentStepIndex + 1
    /\ pc' = "vercel_check"
    /\ UNCHANGED <<config, outside, outcomes, objs, steps, snapshots,
                   inflight, calls, locals, pageIndex, files, error, result>>

\* lines 161-163
CompleteCommit ==
    /\ pc = "commit_done"
    /\ objs' = Assign(objs, currentStepIndex, "completed", <<"deployed">>)
    /\ currentStepIndex' = currentStepIndex + 1
    /\ pc' = "vercel_check"
    /\ UNCHANGED <<config, outside, outcomes, steps, snapshots, inflight,
                   calls, locals, pageIndex, files, error, result>>

\* the condition of line 166
CheckVercel ==
    /\ pc = "vercel_check"
    /\ pc' = IF vercelService THEN "vercel_start" ELSE "finish"
    /\ UNCHANGED <<config, outside, outcomes, objs, steps, snapshots,
                   inflight, calls, locals, currentStepIndex, pageIndex,
                   files, error, result>>

\* lines 167-177: the call of importGitHubRepository runs the adapter up to
\* its fetch, so a URL that matches has its request sent here (lines 184-207)
StartVercel ==
    /\ pc = "vercel_start"
    /\ StartAt(FindIndex(IsVercel(objs)), "importGitHubRepository",
               repoInfo.html_url, "await_import")
    /\ \E url \in {CodeUnits(repoInfo.html_url)} :
          vRequests' =
             IF Defined(FindIndex(IsVercel(objs))) /\ RepoMatch(url)
             THEN Append(vRequests, ImportRequest(url, analysis.projectName))
             ELSE vRequests
    /\ UNCHANGED <<config, composer, detector, other, outcomes, steps,
                   locals, currentStepIndex, pageIndex, files, result>>

\* ReturnImportGitHubRepository without the check of lines 185-187: the
\* request is made whatever the URL
ReturnImportGitHubRepositoryUnchecked ==
    /\ pc = "await_import"
    /\ \E ok \in BOOLEAN, id \in VercelIds :
          IF ok
          THEN /\ vercelProject' = [id |-> id, name |-> analysis.projectName]
               /\ inflight' = "none"
               /\ Resolved("ok")
               /\ pc' = "imported"
               /\ UNCHANGED error
          ELSE /\ Throw(VercelError)
               /\ Resolved("error")
               /\ UNCHANGED vercelProject
    /\ UNCHANGED <<config, outside, objs, steps, snapshots, calls, analysis,
                   repoInfo, supabaseProject, deployment, currentStepIndex,
                   pageIndex, files, result>>

\* VercelService.importGitHubRepository rejects with the error of line 186
\* when the URL did not match; otherwise its request resolves or throws
ReturnImportGitHubRepository ==
    /\ pc = "await_import"
    /\ IF ~RepoMatch(CodeUnits(repoInfo.html_url))
       THEN /\ Throw(InvalidUrlError)
            /\ Resolved("error")
            /\ UNCHANGED vercelProject
       ELSE \E ok \in BOOLEAN, id \in VercelIds :
               IF ok
               THEN /\ vercelProject' =
                         [id |-> id, name |-> analysis.projectName]
                    /\ inflight' = "none"
                    /\ Resolved("ok")
                    /\ pc' = "imported"
                    /\ UNCHANGED error
               ELSE /\ Throw(VercelError)
                    /\ Resolved("error")
                    /\ UNCHANGED vercelProject
    /\ UNCHANGED <<config, outside, objs, steps, snapshots, calls, analysis,
                   repoInfo, supabaseProject, deployment, currentStepIndex,
                   pageIndex, files, result>>

\* CallTriggerDeployment passing the project's name instead of its id
CallTriggerDeploymentByName ==
    /\ pc = "imported"
    /\ Issue("triggerDeployment", vercelProject.name)
    /\ vRequests' = Append(vRequests, DeploymentRequest(vercelProject.name))
    /\ pc' = "await_trigger"
    /\ UNCHANGED <<config, composer, detector, other, outcomes, objs, steps,
                   snapshots, locals, currentStepIndex, pageIndex, files,
                   error, result>>

\* line 180: the call sends the request of lines 222-225
CallTriggerDeployment ==
    /\ pc = "imported"
    /\ Issue("triggerDeployment", vercelProject.id)
    /\ vRequests' = Append(vRequests, DeploymentRequest(vercelProject.id))
    /\ pc' = "await_trigger"
    /\ UNCHANGED <<config, composer, detector, other, outcomes, objs, steps,
                   snapshots, locals, currentStepIndex, pageIndex, files,
                   error, result>>

\* VercelService.triggerDeployment resolves or its request throws
ReturnTriggerDeployment ==
    /\ pc = "await_trigger"
    /\ \E ok \in BOOLEAN :
          IF ok
          THEN /\ deployment' = DeploymentOf(vercelProject)
               /\ inflight' = "none"
               /\ Resolved("ok")
               /\ pc' = "vercel_done"
               /\ UNCHANGED error
          ELSE /\ Throw(VercelError)
               /\ Resolved("error")
               /\ UNCHANGED deployment
    /\ UNCHANGED <<config, outside, objs, steps, snapshots, calls, analysis,
                   repoInfo, supabaseProject, vercelProject, currentStepIndex,
                   pageIndex, files, result>>

\* lines 182-183
CompleteVercel ==
    /\ pc = "vercel_done"
    /\ objs' = Assign(objs, FindIndex(IsVercel(objs)), "completed",
                      <<"deployUrl", vercelProject.name>>)
    /\ pc' = "finish"
    /\ UNCHANGED <<config, outside, outcomes, steps, snapshots, inflight,
                   calls, locals, currentStepIndex, pageIndex, files, error,
                   result>>

\* ReturnValue preferring the deployment's URL when a deployment was made
ReturnValueDeployment ==
    IF vercelService THEN deployment.url ELSE repoInfo.html_url

\* the value generateProject resolves with, line 187
ReturnValue == repoInfo.html_url

\* Finish without the onStepUpdate of line 186
FinishWithoutUpdate ==
    /\ pc = "finish"
    /\ result' = ReturnValue
    /\ pc' = "returned"
    /\ UNCHANGED <<config, outside, outcomes, objs, steps, snapshots,
                   inflight, calls, locals, currentStepIndex, pageIndex,
                   files, error>>

\* lines 186-187
Finish ==
    /\ pc = "finish"
    /\ OnStepUpdate(objs)
    /\ result' = ReturnValue
    /\ pc' = "returned"
    /\ UNCHANGED <<config, outside, outcomes, objs, steps, inflight, calls,
                   locals, currentStepIndex, pageIndex, files, error>>

\* Catch marking every step that is not completed instead of the one found
\* by findIndex
CatchMarksUnfinished ==
    /\ pc = "catch"
    /\ objs' = [r \in DOMAIN objs |->
                  IF objs[r].status # "completed"
                  THEN [objs[r] EXCEPT !.status = "error",
                                       !.details = <<error>>]
                  ELSE objs[r]]
    /\ OnStepUpdate(objs')
    /\ pc' = "threw"
    /\ UNCHANGED <<config, outside, outcomes, steps, inflight, calls, locals,
                   currentStepIndex, pageIndex, files, error, result>>

\* Catch that also deletes the repository created before the failure
CatchWithRollback ==
    /\ pc = "catch"
    /\ LET idx == FindIndex(IsProgress(objs))
       IN IF idx # -1
          THEN /\ objs' = Assign(objs, idx, "error", <<error>>)
               /\ OnStepUpdate(objs')
          ELSE UNCHANGED <<objs, snapshots>>
    /\ IF repoInfo # NoRepoInfo
       THEN calls' = Append(calls, Call("deleteRepository",
                                        repoInfo.full_name))
       ELSE UNCHANGED calls
    /\ pc' = "threw"
    /\ UNCHANGED <<config, outside, outcomes, steps, inflight, locals,
                   currentStepIndex, pageIndex, files, error, result>>

\* lines 188-200: mark the step in progress, if any, and rethrow
Catch ==
    /\ pc = "catch"
    /\ LET idx == FindIndex(IsProgress(objs))
       IN IF idx # -1
          THEN /\ objs' = Assign(objs, idx, "error", <<error>>)
               /\ OnStepUpdate(objs')
          ELSE UNCHANGED <<objs, snapshots>>
    /\ pc' = "threw"
    /\ UNCHANGED <<config, outside, outcomes, steps, inflight, calls, locals,
                   currentStepIndex, pageIndex, files, error, result>>

Next ==
    \/ BuildPlan
    \/ ReturnAnalyzePrompt
    \/ CompleteAnalyze
    \/ StartRepo
    \/ ReturnCreateRepository
    \/ CompleteRepo
    \/ StartSetup
    \/ CompleteSetup
    \/ CheckBackend
    \/ StartDatabase
    \/ ReturnCreateProject
    \/ CallEnableAuth
    \/ ReturnEnableAuth
    \/ CompleteDatabase
    \/ StartStructure
    \/ ReturnGenerateProjectStructure
    \/ CompleteStructure
    \/ StartGenerate
    \/ CallGeneratePageCode
    \/ ReturnGeneratePageCode
    \/ CompleteGenerate
    \/ StartCommit
    \/ ReturnCommitMultipleFiles
    \/ CompleteCommit
    \/ CheckVercel
    \/ StartVercel
    \/ ReturnImportGitHubRepository
    \/ CallTriggerDeployment
    \/ ReturnTriggerDeployment
    \/ CompleteVercel
    \/ Finish
    \/ Catch

Spec == Init /\ [][Next]_vars

\* a run in which every awaited call settles and every statement that can
\* run does run
SpecFair == Spec /\ WF_vars(Next)

\* generateProject is called on a generator with any configuration, and
\* GitHub may answer createRepository with any of RepoUrls
InitUrls ==
    /\ ComposerIdle
    /\ DetectorIdle
    /\ OtherIdle
    /\ RunEntry
    /\ githubHtmlUrl \in RepoUrls

\* the runs of generateProject for every URL of the created repository
SpecUrls == InitUrls /\ [][Next]_vars

\* ------------------------------------- GitHubService.commitMultipleFiles

\* paths and contents the files of a commit are drawn from
CommitPaths == {"a.ts", "b.ts"}

CommitContents == {"x", "y"}

\* every files argument with at most n files (equal paths may repeat)
FileLists(n) ==
    UNION { [1..m -> [path : CommitPaths, content : CommitContents]] :
              m \in 0..n }

\* the entry of an upload that has not resolved
NoEntry == [path |-> "undefined", mode |-> "undefined",
            type |-> "undefined", sha |-> "undefined"]

\* a pipeline that is not running, while commitMultipleFiles is run alone
PipelineIdle ==
    /\ withSetup = FALSE
    /\ vercelService = FALSE
    /\ supabaseService = FALSE
    /\ userPrompt = PromptStatic
    /\ githubHtmlUrl = RepoPage
    /\ objs = << >>
    /\ steps = << >>
    /\ received = << >>
    /\ seen = << >>
    /\ pc = "entry"
    /\ inflight = "none"
    /\ calls = << >>
    /\ outcomes = << >>
    /\ analysis = NoAnalysis
    /\ repoInfo = NoRepoInfo
    /\ supabaseProject = NoSupabaseProject
    /\ vercelProject = NoVercelProject
    /\ deployment = NoDeployment
    /\ currentStepIndex = -1
    /\ pageIndex = 0
    /\ structureFiles = << >>
    /\ allFiles = << >>
    /\ pageFiles = << >>
    /\ error = "none"
    /\ result = "none"
    /\ vRequests = << >>

\* commitMultipleFiles is called with some files on a repository whose main
\* branch has its initial commit
InitCommit ==
    /\ PipelineIdle
    /\ DetectorIdle
    /\ OtherIdle
    /\ cFiles \in FileLists(MaxFiles)
    /\ settled = << >>
    /\ cpc = "start"
    /\ requests = << >>
    /\ blobState = << >>
    /\ blobs = << >>
    /\ currentCommitSha = "undefined"
    /\ currentTreeSha = "undefined"
    /\ newTree = "undefined"
    /\ newCommit = "undefined"
    /\ cError = "none"
    /\ branchTip = InitialCommit
    /\ gitBlobs = {}
    /\ gitTrees = {}
    /\ gitCommits = {}

\* the error of a fetch that rejects (no response at all), line 142
FetchError == "TypeError: Failed to fetch"

\* what a request of GitHubService can throw: the Error built from a
\* non-ok response at lines 152-155 of supabaseService.ts, or the rejection of fetch itself
RequestErrors == {GitHubError, FetchError}

\* CommitThrow with the catch wrapping every error in one error of its own
CommitThrowWraps(err) ==
    /\ cError' = "CommitFailed"
    /\ cpc' = "failed"

\* a request threw err: the catch of lines 274-277 rethrows the same error
CommitThrow(err) ==
    /\ cError' = err
    /\ cpc' = "failed"

\* lines 220-221: GET git/refs/heads/main
GetBranchRef ==
    /\ cpc = "start"
    /\ requests' = Append(requests, "GET ref")
    /\ \E ok \in BOOLEAN :
          IF ok
          THEN /\ currentCommitSha' = branchTip
               /\ cpc' = "getCommit"
               /\ UNCHANGED cError
          ELSE /\ \E err \in RequestErrors : CommitThrow(err)
               /\ UNCHANGED currentCommitSha
    /\ UNCHANGED <<apart, cFiles, uploads, currentTreeSha,
                   newTree, newCommit, branchTip, gitBlobs, gitTrees,
                   gitCommits>>

\* lines 224-225: GET git/commits/<sha>
GetCurrentCommit ==
    /\ cpc = "getCommit"
    /\ requests' = Append(requests, "GET commit")
    /\ \E ok \in BOOLEAN :
          IF ok
          THEN /\ currentTreeSha' = InitialTree
               /\ cpc' = "fanout"
               /\ UNCHANGED cError
          ELSE /\ \E err \in RequestErrors : CommitThrow(err)
               /\ UNCHANGED currentTreeSha
    /\ UNCHANGED <<apart, cFiles, uploads, currentCommitSha,
                   newTree, newCommit, branchTip, gitBlobs, gitTrees,
                   gitCommits>>

\* lines 228-236: files.map issues one POST git/blobs per file, in order,
\* before any of them resolves; Promise.all of no files resolves at once
CreateBlobs ==
    /\ cpc = "fanout"
    /\ requests' = requests \o [i \in DOMAIN cFiles |-> "POST blob"]
    /\ blobState' = [i \in DOMAIN cFiles |-> "pending"]
    /\ blobs' = [i \in DOMAIN cFiles |-> NoEntry]
    /\ settled' = << >>
    /\ cpc' = IF Len(cFiles) = 0 THEN "tree" ELSE "blobs"
    /\ UNCHANGED <<apart, cFiles, currentCommitSha, currentTreeSha,
                   newTree, newCommit, cError, branchTip, gitBlobs,
                   gitTrees, gitCommits>>

\* BlobSettles with Promise.allSettled in place of Promise.all: a rejected
\* upload does not reject the call, which goes on when all have settled
BlobSettlesAllSettled(i) ==
    /\ cpc = "blobs"
    /\ i \in DOMAIN blobState
    /\ blobState[i] = "pending"
    /\ settled' = Append(settled, i)
    /\ \E ok \in BOOLEAN :
          /\ blobState' = [blobState EXCEPT ![i] = IF ok THEN "ok" ELSE "failed"]
          /\ blobs' = [blobs EXCEPT ![i] =
                         IF ok
                         THEN TreeEntry(cFiles[i], BlobSha(cFiles[i].content))
                         ELSE NoEntry]
          /\ gitBlobs' = IF ok
                         THEN gitBlobs \cup {BlobSha(cFiles[i].content)}
                         ELSE gitBlobs
          /\ cpc' = IF \A j \in DOMAIN blobState' : blobState'[j] # "pending"
                    THEN "tree" ELSE cpc
          /\ UNCHANGED cError
    /\ UNCHANGED <<apart, cFiles, requests, currentCommitSha,
                   currentTreeSha, newTree, newCommit, branchTip, gitTrees,
                   gitCommits>>

\* the upload of file i settles, in any order with the others.  Promise.all
\* resolves when the last one has resolved and rejects at the first one
\* that rejects; uploads still pending then settle later without effect on
\* the call.
BlobSettles(i) ==
    /\ cpc \in {"blobs", "failed"}
    /\ i \in DOMAIN blobState
    /\ blobState[i] = "pending"
    /\ settled' = Append(settled, i)
    /\ \E ok \in BOOLEAN :
          IF ok
          THEN /\ blobState' = [blobState EXCEPT ![i] = "ok"]
               /\ blobs' = [blobs EXCEPT ![i] =
                              TreeEntry(cFiles[i], BlobSha(cFiles[i].content))]
               /\ gitBlobs' = gitBlobs \cup {BlobSha(cFiles[i].content)}
               /\ cpc' = IF cpc = "blobs" /\ \A j \in DOMAIN blobState' :
                                                blobState'[j] = "ok"
                         THEN "tree" ELSE cpc
               /\ UNCHANGED cError
          ELSE /\ blobState' = [blobState EXCEPT ![i] = "failed"]
               /\ IF cpc = "blobs"
                  THEN \E err \in RequestErrors : CommitThrow(err)
                  ELSE UNCHANGED <<cpc, cError>>
               /\ UNCHANGED <<blobs, gitBlobs>>
    /\ UNCHANGED <<apart, cFiles, requests, currentCommitSha,
                   currentTreeSha, newTree, newCommit, branchTip, gitTrees,
                   gitCommits>>

\* CreateTree with the entries in the order the uploads completed, as if
\* each upload pushed its entry onto a shared array
CreateTreeCompletionOrder ==
    /\ cpc = "tree"
    /\ requests' = Append(requests, "POST tree")
    /\ \E ok \in BOOLEAN :
          IF ok
          THEN /\ newTree' = NewTreeSha
               /\ gitTrees' = gitTrees \cup
                     {[sha |-> NewTreeSha, base_tree |-> currentTreeSha,
                       tree |-> [k \in DOMAIN settled |-> blobs[settled[k]]]]}
               /\ cpc' = "commit"
               /\ UNCHANGED cError
          ELSE /\ \E err \in RequestErrors : CommitThrow(err)
               /\ UNCHANGED <<newTree, gitTrees>>
    /\ UNCHANGED <<apart, cFiles, uploads, currentCommitSha,
                   currentTreeSha, newCommit, branchTip, gitBlobs,
                   gitCommits>>

\* lines 247-253: POST git/trees
CreateTree ==
    /\ cpc = "tree"
    /\ requests' = Append(requests, "POST tree")
    /\ \E ok \in BOOLEAN :
          IF ok
          THEN /\ newTree' = NewTreeSha
               /\ gitTrees' = gitTrees \cup
                     {[sha |-> NewTreeSha, base_tree |-> currentTreeSha,
                       tree |-> blobs]}
               /\ cpc' = "commit"
               /\ UNCHANGED cError
          ELSE /\ \E err \in RequestErrors : CommitThrow(err)
               /\ UNCHANGED <<newTree, gitTrees>>
    /\ UNCHANGED <<apart, cFiles, uploads, currentCommitSha,
                   currentTreeSha, newCommit, branchTip, gitBlobs,
                   gitCommits>>

\* lines 256-263: POST git/commits
CreateCommit ==
    /\ cpc = "commit"
    /\ requests' = Append(requests, "POST commit")
    /\ \E ok \in BOOLEAN :
          IF ok
          THEN /\ newCommit' = NewCommitSha
               /\ gitCommits' = gitCommits \cup
                     {[sha |-> NewCommitSha, tree |-> newTree,
                       parents |-> <<currentCommitSha>>]}
               /\ cpc' = "ref"
               /\ UNCHANGED cError
          ELSE /\ \E err \in RequestErrors : CommitThrow(err)
               /\ UNCHANGED <<newCommit, gitCommits>>
    /\ UNCHANGED <<apart, cFiles, uploads, currentCommitSha,
                   currentTreeSha, newTree, branchTip, gitBlobs, gitTrees>>

\* UpdateRef issued without awaiting the commit creation of lines 256-263
UpdateRefBeforeCommit ==
    /\ cpc \in {"commit", "ref"}
    /\ requests' = Append(requests, "PATCH ref")
    /\ \E ok \in BOOLEAN :
          IF ok
          THEN /\ branchTip' = newCommit
               /\ cpc' = "done"
               /\ UNCHANGED cError
          ELSE /\ \E err \in RequestErrors : CommitThrow(err)
               /\ UNCHANGED branchTip
    /\ UNCHANGED <<apart, cFiles, uploads, currentCommitSha,
                   currentTreeSha, newTree, newCommit, gitBlobs, gitTrees,
                   gitCommits>>

\* lines 266-273: PATCH git/refs/heads/main, then return newCommit
UpdateRef ==
    /\ cpc = "ref"
    /\ requests' = Append(requests, "PATCH ref")
    /\ \E ok \in BOOLEAN :
          IF ok
          THEN /\ branchTip' = newCommit
               /\ cpc' = "done"
               /\ UNCHANGED cError
          ELSE /\ \E err \in RequestErrors : CommitThrow(err)
               /\ UNCHANGED branchTip
    /\ UNCHANGED <<apart, cFiles, uploads, currentCommitSha,
                   currentTreeSha, newTree, newCommit, gitBlobs, gitTrees,
                   gitCommits>>

NextCommit ==
    \/ GetBranchRef
    \/ GetCurrentCommit
    \/ CreateBlobs
    \/ \E i \in 1..MaxFiles : BlobSettles(i)
    \/ CreateTree
    \/ CreateCommit
    \/ UpdateRef

\* commitMultipleFiles run on its own, for every files argument
SpecCommit == InitCommit /\ [][NextCommit]_vars

\* ------------------------------------- ProjectGenerator.detectBackendNeeds

\* the code units short prompts are made of: D d B b and the space
PromptUnits == {68, 100, 66, 98, 32}

\* every prompt of at most n of those code units
ShortPrompts(n) == UNION { [1..m -> PromptUnits] : m \in 0..n }

\* detectBackendNeeds is called with one of the named prompts or with a
\* short prompt, while no run and no commit is going on
InitDetect ==
    /\ PipelineIdle
    /\ ComposerIdle
    /\ OtherIdle
    /\ dPrompt \in Prompts \cup ShortPrompts(MaxPromptLen)
    /\ dpc = "call"
    /\ dResult = FALSE

\* lines 203-240: the call returns the value of backendKeywords.some(...)
Detect ==
    /\ dpc = "call"
    /\ dResult' = detectBackendNeeds(dPrompt)
    /\ dpc' = "returned"
    /\ UNCHANGED <<pipeline, composer, other, dPrompt>>

NextDetect == Detect

\* detectBackendNeeds called on its own, for every prompt of InitDetect
SpecDetect == InitDetect /\ [][NextDetect]_vars

\* --------------------------------------- two runs of generateProject at once

\* the variables of the first run other than the heap of step objects
run ==
    <<config, steps, snapshots, pc, inflight, calls, outcomes, locals,
      currentStepIndex, pageIndex, files, error, result, vRequests>>

\* the step objects of the second run as they are now, in plan order
OtherLive == Deref(objs, otherSteps)

\* the index (1-based) of the second run's step in progress, 0 if none
OtherProgress ==
    IF \E i \in DOMAIN otherSteps : objs[otherSteps[i]].status = "progress"
    THEN CHOOSE i \in DOMAIN otherSteps :
             objs[otherSteps[i]].status = "progress"
    ELSE 0

\* the value the second run resolves with
OtherUrl == "https://github.com/owner/other"

\* generateProject is called twice: on a generator of either revision with
\* all four services, and on a generator with the two required services;
\* the first run is followed statement by statement, the second stage by
\* stage
InitTwoRuns ==
    /\ ComposerIdle
    /\ DetectorIdle
    /\ RunEntry
    /\ githubHtmlUrl = RepoPage
    /\ userPrompt = PromptLogin
    /\ vercelService
    /\ supabaseService
    /\ otherSteps = << >>
    /\ otherSeen = << >>
    /\ otherPc = "entry"
    /\ otherError = "none"
    /\ otherResult = "none"

\* lines 32-75 in the second run: its array literal creates its own step
\* objects, and its first snapshot is handed to its own callback
OtherBuildPlan ==
    /\ otherPc = "entry"
    /\ LET plan == PlanLiteral(FALSE)
       IN /\ objs' = objs \o plan
          /\ otherSteps' = [i \in DOMAIN plan |-> Len(objs) + i]
          /\ otherSeen' = Append(otherSeen, plan)
    /\ otherPc' = "running"
    /\ UNCHANGED <<run, composer, detector, otherError, otherResult>>

\* the awaited call of the second run's stage in progress resolved: the
\* stage is completed and the next one started, or, after the last stage,
\* the run returns (lines 82-187)
OtherAdvance ==
    /\ otherPc = "running"
    /\ LET k == OtherProgress
           done == [objs EXCEPT ![otherSteps[k]] =
                       [@ EXCEPT !.status = "completed",
                                 !.details = <<"done">>]]
       IN IF k < Len(otherSteps)
          THEN /\ objs' = [done EXCEPT ![otherSteps[k + 1]] =
                              [@ EXCEPT !.status = "progress"]]
               /\ otherPc' = "running"
               /\ UNCHANGED otherResult
          ELSE /\ objs' = done
               /\ otherPc' = "returned"
               /\ otherResult' = OtherUrl
    /\ otherSeen' = Append(otherSeen, Deref(objs', otherSteps))
    /\ UNCHANGED <<run, composer, detector, otherSteps, otherError>>

\* the awaited call of the second run's stage in progress rejected: its
\* catch marks its step in progress and rethrows (lines 188-200)
OtherCatch ==
    /\ otherPc = "running"
    /\ objs' = [objs EXCEPT ![otherSteps[OtherProgress]] =
                   [@ EXCEPT !.status = "error", !.details = <<GitHubError>>]]
    /\ otherSeen' = Append(otherSeen, Deref(objs', otherSteps))
    /\ otherError' = GitHubError
    /\ otherPc' = "threw"
    /\ UNCHANGED <<run, composer, detector, otherSteps, otherResult>>

NextTwoRuns ==
    \/ Next
    \/ OtherBuildPlan
    \/ OtherAdvance
    \/ OtherCatch

\* two runs of generateProject whose steps interleave in every way
SpecTwoRuns == InitTwoRuns /\ [][NextTwoRuns]_vars

\* ------------------------------------------------------ properties checked

\* the step objects as they are now, in plan order
Live == Deref(objs, steps)

\* the last array element
Last(q) == q[Len(q)]

\* number of steps of a snapshot that have status st
CountStatus(snap, st) == Cardinality({i \in DOMAIN snap : snap[i].status = st})

\* position of the step with the given id in a snapshot, 0 if absent
IndexOfId(snap, id) ==
    IF \E i \in DOMAIN snap : snap[i].id = id
    THEN CHOOSE i \in DOMAIN snap : snap[i].id = id
    ELSE 0

\* the errors an adapter call can fail with
CollaboratorErrors == {GitHubError, SupabaseError, VercelError}

\* the status changes the specification allows for one stage
AllowedMoves ==
    { <<"pending", "progress">>, <<"progress", "completed">>,
      <<"progress", "error">> }

\* the stage the specification shows in progress during a collaborator call
StageOfCall(name) ==
    CASE name = "analyzePrompt" -> "analyze"
      [] name = "createRepository" -> "repo"
      [] name \in {"createProject", "enableAuth"} -> "database"
      [] name = "generateProjectStructure" -> "structure"
      [] name = "generatePageCode" -> "generate"
      [] name = "commitMultipleFiles" -> "deploy"
      [] name \in {"importGitHubRepository", "triggerDeployment"} -> "vercel"
      [] OTHER -> "none"

\* C1: stage statuses never regress - a stage that is Completed or Failed
\* keeps that status, and every change of a stage's status is one of
\* Pending -> InProgress, InProgress -> Completed, InProgress -> Failed.
C1_StatusesNeverRegress ==
    [][\A i \in DOMAIN steps :
          \/ objs'[steps'[i]].status = objs[steps[i]].status
          \/ <<objs[steps[i]].status, objs'[steps'[i]].status>>
                \in AllowedMoves]_vars

\* C2: while a collaborator call is in flight, the stage in progress is the
\* stage of that call (createProject and enableAuth belong to "database").
C2_InProgressStageMatchesCall ==
    inflight # "none" =>
        /\ CountStatus(Live, "progress") = 1
        /\ \A i \in DOMAIN Live :
              Live[i].status = "progress" => Live[i].id = StageOfCall(inflight)

\* C3: a finished run in which no collaborator call failed has returned a
\* result, has called commitMultipleFiles exactly once, and its last
\* snapshot shows every stage of the plan Completed.
C3_SuccessCompletesEveryStage ==
    (pc \in {"returned", "threw"} /\ error \notin CollaboratorErrors) =>
        /\ pc = "returned"
        /\ result # "none"
        /\ Cardinality({n \in DOMAIN calls :
                            calls[n].name = "commitMultipleFiles"}) = 1
        /\ \A i \in DOMAIN Last(seen) : Last(seen)[i].status = "completed"

\* C4: when the run has failed, the last snapshot handed to the callback
\* has exactly one Failed stage and its detail is the message of the error
\* generateProject fails with.
C4_FailureShownInLastSnapshot ==
    pc = "threw" =>
        /\ CountStatus(Last(seen), "error") = 1
        /\ \A i \in DOMAIN Last(seen) :
              Last(seen)[i].status = "error" =>
                  Last(seen)[i].details = <<error>>

\* C5: a snapshot handed to the callback never changes afterwards - what the
\* callback's k-th array shows now is what it showed when it was handed over.
C5_SnapshotsImmutable ==
    \A k \in DOMAIN received : Deref(objs, received[k]) = seen[k]

\* C6: at most one stage is InProgress, in every state of a run and in every
\* snapshot handed to the callback.
C6_AtMostOneInProgress ==
    /\ CountStatus(Live, "progress") <= 1
    /\ \A k \in DOMAIN seen : CountStatus(seen[k], "progress") <= 1

\* C6 witness: a run has finished (returned or thrown) after handing out
\* several snapshots, one of them showing a stage in progress.
C6_Witness ==
    /\ pc \in {"threw", "returned"}
    /\ Len(seen) >= 4
    /\ \E k \in DOMAIN seen : CountStatus(seen[k], "progress") = 1

\* C7 as stated: in a successful run every snapshot, from the first to the
\* last, has exactly one stage InProgress.
C7_EverySnapshotOneInProgress ==
    pc = "returned" =>
        \A k \in DOMAIN seen : CountStatus(seen[k], "progress") = 1

\* C7 amended: in a successful run every snapshot but the last has exactly
\* one stage InProgress, and the last snapshot has none.
C7_AllButLastOneInProgress ==
    pc = "returned" =>
        /\ \A k \in 1..(Len(seen) - 1) : CountStatus(seen[k], "progress") = 1
        /\ CountStatus(Last(seen), "progress") = 0

\* C7 witness: a run has returned after handing out its snapshots.
C7_Witness ==
    /\ pc = "returned"
    /\ Len(seen) >= 6

\* C8: the first snapshot has a "database" stage after "repo" and before
\* "structure" exactly when the detector is true for the prompt and a
\* database adapter is configured.
C8_DatabaseStageInPlan ==
    Len(seen) >= 1 =>
        IF detectBackendNeeds(userPrompt) /\ supabaseService
        THEN /\ IndexOfId(seen[1], "database") > IndexOfId(seen[1], "repo")
             /\ IndexOfId(seen[1], "database")
                    < IndexOfId(seen[1], "structure")
        ELSE IndexOfId(seen[1], "database") = 0

\* C9: when createProject has failed, the "database" stage and only it is
\* Failed, and no snapshot of the run shows "structure", "generate" or the
\* commit stage ("deploy") in progress.
C9_CreateProjectFailure ==
    (pc = "threw" /\ Last(calls).name = "createProject") =>
        /\ \A i \in DOMAIN Live :
              Live[i].status = "error" <=> Live[i].id = "database"
        /\ IndexOfId(Live, "database") # 0
        /\ \A k \in DOMAIN seen : \A i \in DOMAIN seen[k] :
              seen[k][i].id \in {"structure", "generate", "deploy"} =>
                  seen[k][i].status # "progress"

\* C10 as stated: a successful run returns the deployment URL when the
\* deployment stage ran and the repository's web URL otherwise.
C10_DeploymentUrlReturned ==
    pc = "returned" =>
        result = IF vercelService THEN deployment.url ELSE repoInfo.html_url

\* C10 amended: a successful run returns the web URL of the repository that
\* createRepository returned, whether or not the deployment stage ran.
C10_RepositoryUrlReturned ==
    pc = "returned" =>
        /\ repoInfo # NoRepoInfo
        /\ result = repoInfo.html_url

\* C10 witness: a run with a deployment stage has returned.
C10_Witness ==
    /\ pc = "returned"
    /\ vercelService
    /\ deployment # NoDeployment

\* the run is over: generateProject has returned or thrown
Finished == pc \in {"returned", "threw"}

\* the calls of the code-generation service
CodegenCalls == {"generateProjectStructure", "generatePageCode"}

\* the calls whose service failed: positions in the outcomes log of the
\* calls named in names that did not settle "ok"
FailedCalls(names) ==
    {k \in DOMAIN outcomes :
        outcomes[k].name \in names /\ outcomes[k].how # "ok"}

\* some call to the collaborator method name has been issued
Called(name) == \E n \in DOMAIN calls : calls[n].name = name

\* C11 as stated: when the analysis service call has failed, createRepository
\* is never called, and the run ends thrown with the "analyze" stage Failed.
C11_AnalysisFailureSurfaces ==
    FailedCalls({"analyzePrompt"}) # {} =>
        /\ ~Called("createRepository")
        /\ Finished => (pc = "threw" /\ Live[1].status = "error")

\* C11 amended: when the analysis service call has failed, analyzePrompt has
\* answered with its default analysis; the run goes on, and when it is over
\* the "analyze" stage is Completed and createRepository was the next call,
\* issued with the default project name.
C11_AnalysisFailureDefaults ==
    FailedCalls({"analyzePrompt"}) # {} =>
        /\ outcomes[1].how = "default"
        /\ analysis = DefaultAnalysis
        /\ error # GeminiError
        /\ Finished =>
              /\ Live[1].status = "completed"
              /\ calls[2] = Call("createRepository",
                                 DefaultAnalysis.projectName)

\* C11 witness: a run whose analysis service call failed is over.
C11_Witness ==
    /\ Finished
    /\ FailedCalls({"analyzePrompt"}) # {}

\* C12 as stated: when a code-generation service call has failed, the run
\* ends thrown, the stage that was in progress is Failed, and
\* commitMultipleFiles is never called.
C12_CodegenFailureAborts ==
    \A k \in FailedCalls(CodegenCalls) :
        /\ ~Called("commitMultipleFiles")
        /\ Finished =>
              /\ pc = "threw"
              /\ Live[outcomes[k].step + 1].status = "error"

\* C12 amended: when a code-generation service call has failed, the adapter
\* has answered with its default files and the run does not abort because
\* of it: generateProject never fails with that error, and when the run is
\* over the stage that was in progress during the call is Completed.
C12_CodegenFailureDefaults ==
    \A k \in FailedCalls(CodegenCalls) :
        /\ outcomes[k].how = "default"
        /\ error # GeminiError
        /\ outcomes[k].step # -1
        /\ Finished => Live[outcomes[k].step + 1].status = "completed"

\* C12 witness: a run in which the generation of a page failed is over, and
\* its files include that page's default file.
C12_Witness ==
    /\ Finished
    /\ \E k \in FailedCalls({"generatePageCode"}) : TRUE
    /\ \E n \in DOMAIN allFiles : allFiles[n] = "src/app/page1/page.tsx"

\* C13: when a collaborator call has failed, the only stage marked Failed is
\* the one that was in progress when the call failed, and every stage that
\* was Completed then is Completed in the last snapshot.
C13_OnlyInProgressStageFails ==
    (pc = "threw" /\ error \in CollaboratorErrors) =>
        /\ Last(outcomes).how = "error"
        /\ Last(outcomes).step # -1
        /\ {i \in DOMAIN Live : Live[i].status = "error"}
              = {Last(outcomes).step + 1}
        /\ {i \in DOMAIN Last(seen) : Last(seen)[i].status = "error"}
              = {Last(outcomes).step + 1}
        /\ \A i \in Last(outcomes).completed :
              Last(seen)[i].status = "completed"

\* C13 witness: a run has failed on a collaborator call after two or more
\* stages were completed, with pending stages behind the failed one.
C13_Witness ==
    /\ pc = "threw"
    /\ error \in CollaboratorErrors
    /\ Cardinality(Last(outcomes).completed) >= 2
    /\ CountStatus(Live, "pending") >= 1

\* C14: once an error has been thrown no collaborator call is issued any
\* more - no later stage's call and no compensating call.
C14_NoCallAfterFailure ==
    [][error # "none" => (calls' = calls /\ inflight' = "none")]_vars

\* C14 witness: a run has failed after createRepository had succeeded; the
\* repository is left as it is.
C14_Witness ==
    /\ pc = "threw"
    /\ repoInfo # NoRepoInfo
    /\ Last(calls).name # "createRepository"

\* ---------------------------------------------------------------- C15

\* some request of commitMultipleFiles before the PATCH of the ref failed
FailedBeforeRefUpdate ==
    /\ cpc = "failed"
    /\ \A k \in DOMAIN requests : requests[k] # "PATCH ref"

\* some blob upload was rejected
SomeBlobFailed == \E i \in DOMAIN blobState : blobState[i] = "failed"

\* C15: when a blob upload or any other request before the ref update
\* fails, commitMultipleFiles fails with that error, the branch tip is the
\* tip it had before the call, a failed upload leaves no tree and no commit
\* behind, and once the call has failed no tree or commit is created and
\* the tip does not move.
C15_CommitAtomic ==
    /\ [](/\ SomeBlobFailed =>
                /\ cpc = "failed"
                /\ gitTrees = {}
                /\ gitCommits = {}
          /\ FailedBeforeRefUpdate =>
                /\ cError \in RequestErrors
                /\ branchTip = InitialCommit)
    /\ [][cpc = "failed" =>
             /\ cpc' = "failed"
             /\ gitTrees' = gitTrees
             /\ gitCommits' = gitCommits
             /\ branchTip' = branchTip
             /\ requests' = requests]_vars

\* one upload was stored, another was rejected, the call has failed and
\* the tip is where it was
C15_Witness ==
    /\ SomeBlobFailed
    /\ gitBlobs # {}
    /\ cpc = "failed"
    /\ branchTip = InitialCommit
    /\ Len(cFiles) >= 2

\* ---------------------------------------------------------------- C16

\* the ids of a snapshot's stages, in order
IdsOf(snap) == [i \in DOMAIN snap |-> snap[i].id]

\* id occurs among the stages of a snapshot
HasStage(snap, id) == \E i \in DOMAIN snap : snap[i].id = id

\* C16: in every configuration the plan of the first snapshot starts with
\* 'analyze'; with a deployment adapter it ends with 'deploy' followed by
\* 'vercel', without one it ends with 'deploy' and has no 'vercel' stage;
\* without a database adapter it has no 'database' stage; and every stage
\* of it is Pending except 'analyze', so none is present-and-skipped.
C16_PlanShape ==
    Len(seen) >= 1 =>
        LET plan == seen[1]
            n == Len(plan)
        IN /\ n >= 2
           /\ plan[1].id = "analyze"
           /\ IF vercelService
              THEN plan[n].id = "vercel" /\ plan[n - 1].id = "deploy"
              ELSE plan[n].id = "deploy" /\ ~HasStage(plan, "vercel")
           /\ ~supabaseService => ~HasStage(plan, "database")
           /\ \A i, j \in DOMAIN plan : plan[i].id = plan[j].id => i = j
           /\ \A i \in 2..n : plan[i].status = "pending"

\* a plan with the deployment stage after the commit stage, built with a
\* deployment adapter and without a database adapter
C16_Witness ==
    /\ Len(seen) >= 1
    /\ vercelService
    /\ ~supabaseService
    /\ Last(seen[1]).id = "vercel"
    /\ HasStage(seen[1], "deploy")

\* ---------------------------------------------------------------- C17

\* no optional integration is configured and the detector is false
PlainRun ==
    /\ ~vercelService
    /\ ~supabaseService
    /\ ~detectBackendNeeds(userPrompt)

\* the run has returned and no call of it threw
Succeeded == pc = "returned" /\ error = "none"

\* the run ended as the scenario says: every stage Completed in the last
\* snapshot and in the live steps, the result is the repository's web URL
EndsCompletedWithRepoUrl ==
    /\ \A i \in DOMAIN Last(seen) : Last(seen)[i].status = "completed"
    /\ \A i \in DOMAIN Live : Live[i].status = "completed"
    /\ result = repoInfo.html_url
    /\ result = CreatedRepo(analysis.projectName, githubHtmlUrl).html_url

\* C17 as stated: in a plain run the plan is exactly analyze, repo,
\* structure, generate, deploy, and a successful run ends with every stage
\* Completed and the repository's web URL as result.
C17_PlanExactlyFive ==
    (PlainRun /\ Len(seen) >= 1) =>
        /\ IdsOf(seen[1]) =
              <<"analyze", "repo", "structure", "generate", "deploy">>
        /\ Succeeded => EndsCompletedWithRepoUrl

\* C17 amended: the revision with the scaffold stage has 'setup' between
\* 'repo' and 'structure'; otherwise the plan is the five stages; in both
\* a successful plain run ends with every stage Completed and the
\* repository's web URL as result.
C17_PlanFiveOrSetup ==
    (PlainRun /\ Len(seen) >= 1) =>
        /\ IdsOf(seen[1]) =
              IF withSetup
              THEN <<"analyze", "repo", "setup", "structure", "generate",
                     "deploy">>
              ELSE <<"analyze", "repo", "structure", "generate", "deploy">>
        /\ \A k \in DOMAIN seen : IdsOf(seen[k]) = IdsOf(seen[1])
        /\ Succeeded => EndsCompletedWithRepoUrl

\* a successful plain run of the revision with the scaffold stage
C17_Witness ==
    /\ PlainRun
    /\ Succeeded
    /\ withSetup
    /\ Len(Last(seen)) = 6
    /\ Called("commitMultipleFiles")

\* ---------------------------------------------------------------- C18

\* the place of a collaborator call in the order the specification gives
CallRank(name) ==
    CASE name = "analyzePrompt" -> 1
      [] name = "createRepository" -> 2
      [] name = "createProject" -> 3
      [] name = "enableAuth" -> 4
      [] name = "generateProjectStructure" -> 5
      [] name = "generatePageCode" -> 6
      [] name = "commitMultipleFiles" -> 7
      [] name = "importGitHubRepository" -> 8
      [] name = "triggerDeployment" -> 9
      [] OTHER -> 0

\* C18: the calls of a run are issued one at a time - the k-th settlement
\* is that of the k-th call, and when a call is issued every earlier call
\* has settled, so at most one is in flight - and in the order analysis,
\* createRepository, createProject, enableAuth, generateStructure,
\* generatePage (once per page), commitFiles, importRepository,
\* triggerDeployment, none but generatePage being issued twice.
C18_StrictlySequential ==
    /\ Len(calls) = Len(outcomes) + (IF inflight = "none" THEN 0 ELSE 1)
    /\ \A k \in DOMAIN outcomes : outcomes[k].name = calls[k].name
    /\ inflight # "none" => inflight = Last(calls).name
    /\ \A k \in DOMAIN calls : CallRank(calls[k].name) >= 1
    /\ \A k, l \in DOMAIN calls :
          k < l =>
             \/ CallRank(calls[k].name) < CallRank(calls[l].name)
             \/ /\ calls[k].name = "generatePageCode"
                /\ calls[l].name = "generatePageCode"

\* a run that went through every kind of call, two pages among them
C18_Witness ==
    /\ pc = "returned"
    /\ Len(calls) = 9 + 1
    /\ \A r \in 1..9 : \E k \in DOMAIN calls : CallRank(calls[k].name) = r
    /\ Len(outcomes) = Len(calls)

\* ---------------------------------------------------------------- C19

\* the stages whose status differs between snapshot k and snapshot k + 1
ChangedBetween(k) ==
    {i \in DOMAIN seen[k] : seen[k][i].status # seen[k + 1][i].status}

DatabasePoints ==
    {"db_start", "await_createProject", "db_created", "await_enableAuth",
     "db_done"}

\* C20: when the detector fires and no database adapter is configured,
\* createProject and enableAuth are never called, the database branch is
\* never entered, no database project exists, no snapshot has a 'database'
\* stage, and a stage that is InProgress is the stage of the call in
\* flight, which is not a database call.
C20_DatabaseOmitted ==
    (detectBackendNeeds(userPrompt) /\ ~supabaseService) =>
        /\ ~Called("createProject")
        /\ ~Called("enableAuth")
        /\ pc \notin DatabasePoints
        /\ supabaseProject = NoSupabaseProject
        /\ \A k \in DOMAIN seen : ~HasStage(seen[k], "database")
        /\ inflight # "none" =>
              /\ StageOfCall(inflight) # "database"
              /\ \A i \in DOMAIN Live :
                    Live[i].status = "progress" =>
                       Live[i].id = StageOfCall(inflight)

\* the detector fired, no database adapter is configured, and the run went
\* past the database branch to the structure stage
C20_Witness ==
    /\ detectBackendNeeds(userPrompt)
    /\ ~supabaseService
    /\ Called("generateProjectStructure")
    /\ pc = "returned"

\* ---------------------------------------------------------------- C21

\* some call of the given name settled with an error
Failed(name) ==
    \E k \in DOMAIN outcomes :
        outcomes[k].name = name /\ outcomes[k].how = "error"

\* C21: every enableAuth call directly follows a createProject call of the
\* same run that settled successfully, and its argument is the id of the
\* project createProject returned; after a failed createProject there is
\* no enableAuth call.
C21_EnableAuthAfterCreateProject ==
    /\ \A k \in DOMAIN calls :
          calls[k].name = "enableAuth" =>
             /\ k > 1
             /\ calls[k - 1].name = "createProject"
             /\ outcomes[k - 1].name = "createProject"
             /\ outcomes[k - 1].how = "ok"
             /\ supabaseProject.id \in SupabaseIds
             /\ calls[k].arg = supabaseProject.id
    /\ Failed("createProject") => ~Called("enableAuth")

\* enableAuth was called with the id of the created project
C21_Witness ==
    /\ Called("enableAuth")
    /\ \E k \in DOMAIN calls :
          calls[k].name = "enableAuth" /\ calls[k].arg = supabaseProject.id
    /\ supabaseProject.id \in SupabaseIds

\* ---------------------------------------------------------------- C22

\* C22: the stage ids of the first snapshot are pairwise distinct, every
\* later snapshot and the live steps array have the same ids in the same
\* order (so the same number of stages), and no step of the steps array
\* takes the place of another or changes its id.
C22_PlanStructureFixed ==
    /\ [](Len(seen) >= 1 =>
             /\ \A i, j \in DOMAIN seen[1] :
                   seen[1][i].id = seen[1][j].id => i = j
             /\ \A k \in DOMAIN seen : IdsOf(seen[k]) = IdsOf(seen[1])
             /\ \A k \in DOMAIN received : Len(received[k]) = Len(seen[1])
             /\ IdsOf(Live) = IdsOf(seen[1]))
    /\ [][Len(seen) >= 1 =>
             /\ steps' = steps
             /\ \A r \in DOMAIN objs : objs'[r].id = objs[r].id]_vars

\* a run that has handed out several snapshots in which statuses and
\* details changed
C22_Witness ==
    /\ Len(seen) >= 4
    /\ pc = "returned"
    /\ \E i \in DOMAIN seen[1] :
          /\ seen[1][i].status # Last(seen)[i].status
          /\ seen[1][i].details # Last(seen)[i].details

\* ---------------------------------------------------------------- C23

\* how many times a collaborator call of the given name was issued
TimesCalled(name) ==
    Cardinality({k \in DOMAIN calls : calls[k].name = name})

\* the collaborator calls a run issues at most once
SingleCalls ==
    {"analyzePrompt", "createRepository", "createProject", "enableAuth",
     "generateProjectStructure", "commitMultipleFiles",
     "importGitHubRepository", "triggerDeployment"}

\* C23: each of the single calls is issued at most once in a run,
\* generatePage is issued at most once for each page of the analysis, and
\* after a call has failed no call at all is issued, so none is retried.
C23_NoRetry ==
    /\ \A name \in SingleCalls : TimesCalled(name) <= 1
    /\ TimesCalled("generatePageCode") <= Len(analysis.pages)
    /\ \A k, l \in DOMAIN calls :
          (/\ k # l
           /\ calls[k].name = "generatePageCode"
           /\ calls[l].name = "generatePageCode")
             => calls[k].arg # calls[l].arg
    /\ \A k \in DOMAIN outcomes :
          outcomes[k].how = "error" => k = Len(calls)
    /\ \A k \in DOMAIN outcomes :
          outcomes[k].how = "default" =>
             \A l \in DOMAIN calls : l > k => calls[l] # calls[k]

\* a run in which a collaborator call failed and the run has ended
C23_Witness ==
    /\ pc = "threw"
    /\ Len(outcomes) >= 2
    /\ Last(outcomes).how = "error"
    /\ Last(outcomes).name = "createRepository"

\* ---------------------------------------------------------------- C24

\* the one error kind the specification gives every failure of a commit
CommitFailed == "CommitFailed"

\* C24 as stated: whatever request of commitMultipleFiles failed, the error
\* the caller gets is the one error CommitFailed.
C24_SingleCommitFailedKind ==
    cpc = "failed" => cError = CommitFailed

\* C24 amended: a failed commitMultipleFiles fails with exactly one error,
\* and that error is the error of the request that failed, unchanged - the
\* Error built from the non-ok response or the rejection of fetch - at
\* whichever request the failure happened; it is never replaced afterwards.
C24_UnderlyingErrorRethrown ==
    /\ [](/\ cpc = "failed" <=> cError # "none"
          /\ cpc = "failed" => cError \in RequestErrors)
    /\ [][/\ (cpc # "failed" /\ cpc' = "failed") =>
                /\ cError' \in RequestErrors
                /\ requests' # requests \/ cpc = "blobs"
          /\ cError # "none" => cError' = cError]_vars

\* the commit creation failed because fetch itself rejected, after the
\* tree had been created
C24_Witness ==
    /\ cpc = "failed"
    /\ cError = FetchError
    /\ Last(requests) = "POST commit"
    /\ gitTrees # {}

\* ---------------------------------------------------------------- C25

\* the upper-case form of an ASCII letter, other code units unchanged
UpperUnit(c) == IF c >= 97 /\ c <= 122 THEN c - 32 ELSE c

\* a prompt with every ASCII letter in upper case
ToUpperCase(s) == [i \in 1..Len(s) |-> UpperUnit(s[i])]

\* some keyword of the table, as written there, occurs in s
ContainsKeyword(s) ==
    \E n \in DOMAIN backendKeywords : Includes(s, backendKeywords[n])

\* C25: detectBackendNeeds returns true exactly when the lower-cased prompt
\* contains a keyword of the table; the all-upper-case and the
\* all-lower-case form of the prompt get the same answer as the prompt;
\* it is true for "I need a login and signup page" and false for "a static
\* portfolio site"; and the call changes nothing but its own result.
C25_KeywordDetection ==
    /\ [](dpc = "returned" =>
             /\ dResult = ContainsKeyword(ToLowerCase(dPrompt))
             /\ dResult = detectBackendNeeds(ToUpperCase(dPrompt))
             /\ dResult = detectBackendNeeds(ToLowerCase(dPrompt))
             /\ dPrompt = PromptLogin => dResult = TRUE
             /\ dPrompt = PromptStatic => dResult = FALSE)
    /\ [][UNCHANGED <<pipeline, composer, dPrompt>>]_vars

\* a prompt with upper-case letters for which the detector answered true
C25_Witness ==
    /\ dpc = "returned"
    /\ dResult = TRUE
    /\ dPrompt # ToLowerCase(dPrompt)
    /\ dPrompt \in ShortPrompts(MaxPromptLen)

\* ---------------------------------------------------------------- C26

\* the requests of a commitMultipleFiles call that succeeds, in order
FullRequests ==
    <<"GET ref", "GET commit">>
       \o [i \in DOMAIN cFiles |-> "POST blob"]
       \o <<"POST tree", "POST commit", "PATCH ref">>

\* s is an initial part of t
IsPrefix(s, t) == Len(s) <= Len(t) /\ s = SubSeq(t, 1, Len(s))

\* C26: the requests are issued in the order tip lookup, commit lookup,
\* blob uploads, tree creation, commit creation, ref update; the ref update
\* is issued once, as the last request, after all the others have
\* succeeded; and the commit created has the tip resolved by the first
\* request as its only parent and the new tree as its tree.
C26_RefUpdateLast ==
    /\ IsPrefix(requests, FullRequests)
    /\ (\E k \in DOMAIN requests : requests[k] = "PATCH ref") =>
          /\ requests = FullRequests
          /\ \A i \in DOMAIN cFiles : blobState[i] = "ok"
          /\ currentCommitSha = InitialCommit
          /\ currentTreeSha = InitialTree
          /\ newTree = NewTreeSha
          /\ newCommit = NewCommitSha
          /\ \E t \in gitTrees : t.sha = newTree
          /\ \E c \in gitCommits : c.sha = newCommit
    /\ \A c \in gitCommits :
          /\ c.parents = <<InitialCommit>>
          /\ c.parents = <<currentCommitSha>>
          /\ c.tree = newTree
    /\ branchTip # InitialCommit =>
          /\ cpc = "done"
          /\ branchTip = newCommit
          /\ Last(requests) = "PATCH ref"

\* a commit of two files went through and the branch points at it
C26_Witness ==
    /\ cpc = "done"
    /\ Len(cFiles) = 2
    /\ branchTip = NewCommitSha
    /\ Last(requests) = "PATCH ref"

\* ---------------------------------------------------------------- C27

\* the tree creation has been requested
TreeRequested == \E k \in DOMAIN requests : requests[k] = "POST tree"

\* C27: all N uploads are issued before any settles and they settle in any
\* order; the tree is requested only when all N have succeeded; and the
\* tree has exactly N entries, the i-th pairing the path of the i-th input
\* file with the sha returned for that file's upload, whatever the order in
\* which the uploads settled.
C27_FanOutFanIn ==
    /\ cpc = "blobs" =>
          /\ Len(blobState) = Len(cFiles)
          /\ Cardinality({k \in DOMAIN requests : requests[k] = "POST blob"})
                = Len(cFiles)
    /\ \A k \in DOMAIN settled : blobState[settled[k]] # "pending"
    /\ TreeRequested =>
          /\ \A i \in DOMAIN cFiles : blobState[i] = "ok"
          /\ Len(settled) = Len(cFiles)
          /\ \A i \in DOMAIN cFiles : \E k \in DOMAIN settled : settled[k] = i
          /\ \A i \in DOMAIN cFiles : BlobSha(cFiles[i].content) \in gitBlobs
    /\ \A t \in gitTrees :
          /\ t.base_tree = InitialTree
          /\ Len(t.tree) = Len(cFiles)
          /\ \A i \in DOMAIN cFiles :
                /\ t.tree[i].path = cFiles[i].path
                /\ t.tree[i].sha = BlobSha(cFiles[i].content)
                /\ t.tree[i].mode = "100644"
                /\ t.tree[i].type = "blob"

\* three files whose uploads settled last file first, and the tree made
\* from them
C27_Witness ==
    /\ gitTrees # {}
    /\ Len(cFiles) = 3
    /\ settled = <<3, 1, 2>>
    /\ cFiles[1].path # cFiles[3].path
    /\ cFiles[1].content # cFiles[3].content

\* ---------------------------------------------------------------- C28

RECURSIVE Flatten(_)
\* the concatenation of a sequence of sequences
Flatten(q) == IF q = << >> THEN << >> ELSE Head(q) \o Flatten(Tail(q))

RECURSIVE SumLen(_)
\* the sum of the lengths of a sequence of sequences
SumLen(q) == IF q = << >> THEN 0 ELSE Len(Head(q)) + SumLen(Tail(q))

\* the arguments of the generatePageCode calls, in call order
PagesRequested ==
    LET pageCalls == SelectSeq(calls, LAMBDA c : c.name = "generatePageCode")
    IN [j \in DOMAIN pageCalls |-> pageCalls[j].arg]

\* every page of the analysis was generated once, in the order of
\* analysis.pages, and pageFiles holds the outputs in that order
PagesGeneratedInOrder ==
    /\ PagesRequested = analysis.pages
    /\ Len(pageFiles) = Len(analysis.pages)

\* C28 as stated: the files given to commitMultipleFiles are the structure
\* output followed by the output of every page in the order of
\* analysis.pages and nothing else, none dropped as a duplicate.
C28_StructureThenPages ==
    Called("commitMultipleFiles") =>
        /\ PagesGeneratedInOrder
        /\ allFiles = structureFiles \o Flatten(pageFiles)
        /\ Len(allFiles) = Len(structureFiles) + SumLen(pageFiles)

\* C28 amended: in the revision with the scaffold stage the files of
\* generateSetupFiles come first; then, in both revisions, the structure
\* output and the output of every page in the order of analysis.pages;
\* entries with equal paths are all kept, so the length is the sum of the
\* lengths of those parts.
C28_SetupStructureThenPages ==
    Called("commitMultipleFiles") =>
        LET setupFiles == IF withSetup THEN generateSetupFiles ELSE << >>
        IN /\ PagesGeneratedInOrder
           /\ allFiles = setupFiles \o structureFiles \o Flatten(pageFiles)
           /\ Len(allFiles) =
                 Len(setupFiles) + Len(structureFiles) + SumLen(pageFiles)

\* a commit of the revision with the scaffold stage, with two pages, in
\* which one path occurs more than once
C28_Witness ==
    /\ Called("commitMultipleFiles")
    /\ withSetup
    /\ Len(pageFiles) = 2
    /\ \E m, n \in DOMAIN allFiles : m < n /\ allFiles[m] = allFiles[n]

\* ---------------------------------------------------------------- C29

\* the step objects of one run are not step objects of the other
NoSharedStep ==
    \A i \in DOMAIN steps : \A j \in DOMAIN otherSteps :
        steps[i] # otherSteps[j]

\* C29: two concurrent runs have no step object in common; a step of one
\* run changes neither the stage statuses and details, nor the snapshots,
\* the error or the result of the other run, so each run goes on as it
\* does alone; and a stage is marked Failed in a run only when that run
\* itself has failed.
C29_RunsShareNoState ==
    /\ [](/\ NoSharedStep
          /\ (\E i \in DOMAIN Live : Live[i].status = "error") =>
                (pc = "threw" /\ error # "none")
          /\ (\E j \in DOMAIN OtherLive : OtherLive[j].status = "error") =>
                (otherPc = "threw" /\ otherError # "none")
          /\ \A k \in DOMAIN seen : IdsOf(seen[k]) = IdsOf(Live)
          /\ \A k \in DOMAIN otherSeen : IdsOf(otherSeen[k]) = IdsOf(OtherLive)
          /\ pc = "returned" => result = repoInfo.html_url
          /\ otherPc = "returned" => otherResult = OtherUrl)
    /\ [][/\ other' # other => (run' = run /\ Live' = Live)
          /\ run' # run => (other' = other /\ OtherLive' = OtherLive)]_vars

\* the second run built its plan first and failed while the first run was
\* under way, and the first run returned with every stage Completed
C29_Witness ==
    /\ otherPc = "threw"
    /\ Len(otherSeen) >= 3
    /\ otherSteps[1] = 1
    /\ pc = "returned"
    /\ Len(seen) >= 3
    /\ \A i \in DOMAIN Live : Live[i].status = "completed"

\* ---------------------------------------------------------------- C30

\* C30: when every awaited call settles, a run of generateProject
\* eventually finishes; it finishes either by returning a URL, with no
\* error, or by throwing an error, with no result, never both; once
\* finished it stays as it is; and no call is in flight and no stage is
\* InProgress when it has finished.
C30_RunTerminates ==
    /\ <>Finished
    /\ [](/\ pc = "returned" => (result # "none" /\ error = "none")
          /\ pc = "threw" => (error # "none" /\ result = "none")
          /\ result # "none" => pc = "returned"
          /\ Finished =>
                /\ inflight = "none"
                /\ \A i \in DOMAIN Live : Live[i].status # "progress")
    /\ [][Finished => UNCHANGED vars]_vars

\* a run that went through all its calls and returned a URL
C30_Witness ==
    /\ pc = "returned"
    /\ result = repoInfo.html_url
    /\ error = "none"
    /\ inflight = "none"
    /\ Len(calls) >= 5
    /\ Len(analysis.pages) = MaxPages

\* ---------------------------------------------------------------- C31

\* positions in the call log of the calls with the given name
CallsOf(name) == {k \in DOMAIN calls : calls[k].name = name}

\* the call with the given name had settled successfully before the call at
\* position k of the call log was issued
SucceededBefore(name, k) ==
    \E j \in 1..(k - 1) :
        /\ j \in DOMAIN outcomes
        /\ outcomes[j].name = name
        /\ outcomes[j].how = "ok"

\* the deployment adapter's calls
DeploymentCalls == {"importGitHubRepository", "triggerDeployment"}

\* C31: once createRepository has returned a repository, the run keeps it;
\* commitMultipleFiles is called on that repository's full name,
\* importGitHubRepository with that repository's web URL, and
\* triggerDeployment with the id of the project importGitHubRepository
\* returned, which is also what the requests sent to the deployment service
\* carry; and a deployment call is issued only after commitMultipleFiles has
\* settled successfully.
C31_DataFlowsBetweenStages ==
    /\ [](/\ \A k \in CallsOf("commitMultipleFiles") :
                /\ SucceededBefore("createRepository", k)
                /\ repoInfo # NoRepoInfo
                /\ calls[k].arg = repoInfo.full_name
          /\ \A k \in CallsOf("importGitHubRepository") :
                /\ repoInfo # NoRepoInfo
                /\ calls[k].arg = repoInfo.html_url
          /\ \A k \in CallsOf("triggerDeployment") :
                /\ SucceededBefore("importGitHubRepository", k)
                /\ vercelProject # NoVercelProject
                /\ calls[k].arg = vercelProject.id
          /\ \A k \in DOMAIN calls :
                calls[k].name \in DeploymentCalls =>
                    SucceededBefore("commitMultipleFiles", k)
          /\ \A n \in DOMAIN vRequests :
                /\ SucceededBefore("commitMultipleFiles", Len(calls))
                /\ vRequests[n].endpoint = "POST /v9/projects" =>
                      vRequests[n] =
                          ImportRequest(CodeUnits(repoInfo.html_url),
                                        analysis.projectName)
                /\ vRequests[n].endpoint = "POST /v13/deployments" =>
                      vRequests[n].name = vercelProject.id)
    /\ [][/\ repoInfo # NoRepoInfo => repoInfo' = repoInfo
          /\ vercelProject # NoVercelProject =>
                vercelProject' = vercelProject]_vars

\* C31 witness: a run with a deployment stage has returned after committing
\* to the created repository, importing it and deploying the imported
\* project, one request to the deployment service for each of the two calls
C31_Witness ==
    /\ pc = "returned"
    /\ CallsOf("commitMultipleFiles") # {}
    /\ \E k \in CallsOf("importGitHubRepository") :
          calls[k].arg = "https://github.com/owner/repo"
    /\ \E k \in CallsOf("triggerDeployment") : calls[k].arg = "prj-b"
    /\ Len(vRequests) = 2
    /\ vRequests[1].source = <<111,119,110,101,114,47,114,101,112,111>>

\* ---------------------------------------------------------------- C32

\* s holds "github.com/", an owner, "/" and a repository name, the owner
\* and the name being non-empty and without "/"
NamesRepository(s) ==
    \E o \in 0..(Len(s) - Len(GitHubHost)) :
        /\ SubSeq(s, o + 1, o + Len(GitHubHost)) = GitHubHost
        /\ LET p == o + Len(GitHubHost)
           IN \E a \in 1..(Len(s) - p) :
                 /\ \A j \in (p + 1)..(p + a) : s[j] # Slash
                 /\ p + a + 1 <= Len(s)
                 /\ s[p + a + 1] = Slash
                 /\ \E b \in 1..(Len(s) - p - a - 1) :
                       \A j \in (p + a + 2)..(p + a + 1 + b) : s[j] # Slash

\* the URL of the created repository is malformed
MalformedRepoUrl ==
    /\ repoInfo # NoRepoInfo
    /\ ~NamesRepository(CodeUnits(repoInfo.html_url))

\* importGitHubRepository was called with a malformed URL and has thrown
ImportRejected ==
    /\ MalformedRepoUrl
    /\ CallsOf("importGitHubRepository") # {}
    /\ pc \in {"catch", "threw"}

\* the live step with the given id
StepOf(id) == Live[IndexOfId(Live, id)]

\* C32: when the URL of the created repository names no repository under
\* github.com, importGitHubRepository throws 'Invalid GitHub repository
\* URL' and no request is ever sent to the deployment service; the run
\* ends by throwing that error, with the 'vercel' stage the only Failed
\* one and carrying the error's message, in the last snapshot too; the
\* commit stage stays Completed, its status and detail as they were when
\* the import was called, and the branch stays on the commit that
\* commitMultipleFiles made; the run never gets past the import.
C32_MalformedUrlRejected ==
    /\ [](/\ MalformedRepoUrl =>
                /\ vRequests = << >>
                /\ pc \notin {"imported", "await_trigger", "vercel_done"}
                /\ vercelService => pc # "returned"
          /\ ImportRejected =>
                /\ error = InvalidUrlError
                /\ Last(outcomes).name = "importGitHubRepository"
                /\ Last(outcomes).how = "error"
                /\ StepOf("deploy").status = "completed"
                /\ branchTip = NewCommitSha
          /\ (ImportRejected /\ pc = "threw") =>
                /\ StepOf("vercel").status = "error"
                /\ StepOf("vercel").details = <<InvalidUrlError>>
                /\ Last(seen) = Live
                /\ \A i \in DOMAIN Live :
                      Live[i].status = "error" => Live[i].id = "vercel")
    /\ [][(MalformedRepoUrl /\ CallsOf("importGitHubRepository") # {}) =>
             /\ branchTip' = branchTip
             /\ StepOf("deploy")' = StepOf("deploy")
             /\ vRequests' = vRequests]_vars

\* C32 witness: a run whose repository URL is on another host, and one whose
\* URL lacks the repository name, has committed and then thrown the URL
\* error out of the deployment stage
C32_Witness ==
    /\ pc = "threw"
    /\ error = InvalidUrlError
    /\ repoInfo.html_url \in {"https://gitlab.com/owner/repo",
                              "https://github.com/owner"}
    /\ StepOf("vercel").status = "error"
    /\ StepOf("deploy").status = "completed"
    /\ branchTip = NewCommitSha
    /\ gitCommits # {}
    /\ vRequests = << >>

\* ---------------------------------------------------------------- C33

\* the outcomes of the generatePageCode calls that have settled, in order
PagesSettled ==
    SelectSeq(outcomes, LAMBDA o : o.name = "generatePageCode")

\* generatePageCode is called for the pages of the analysis in their order,
\* once each, and a call is issued only when the one before it has settled
PageCallsSequential ==
    /\ Len(PagesRequested) <= Len(analysis.pages)
    /\ PagesRequested = SubSeq(analysis.pages, 1, Len(PagesRequested))
    /\ Len(PagesRequested) - Len(PagesSettled) =
          (IF inflight = "generatePageCode" THEN 1 ELSE 0)
    /\ pageIndex = Len(PagesSettled)

\* C33: generatePageCode is called once for each page of the analysis, in
\* the order of analysis.pages, each call settling before the next is
\* issued; during the whole loop the 'generate' stage is InProgress, and it
\* is Completed only when the call for the last page has resolved.
C33_PageLoopUnderGenerate ==
    /\ PageCallsSequential
    /\ pc \in {"page_loop", "await_page"} =>
          StepOf("generate").status = "progress"
    /\ (steps # << >> /\ StepOf("generate").status = "completed") =>
          /\ PagesGeneratedInOrder
          /\ Len(PagesSettled) = Len(analysis.pages)

\* ---------------------------------------------------------------- C34

\* the details of the steps of a snapshot fit their statuses
DetailsFitStatus(snap) ==
    \A i \in DOMAIN snap :
        /\ snap[i].status = "completed" => snap[i].details # << >>
        /\ snap[i].status = "error" =>
              (error # "none" /\ snap[i].details = <<error>>)
        /\ snap[i].status = "pending" => snap[i].details = << >>

\* C34: in every snapshot, as the callback read it when it was handed over
\* and as its array reads at any later time, a Completed stage has a
\* non-empty detail, a Failed stage has the message of the error the run
\* failed with as its detail, and a Pending stage has no detail.
C34_DetailsFitStatus ==
    /\ \A k \in DOMAIN seen : DetailsFitStatus(seen[k])
    /\ \A k \in DOMAIN received : DetailsFitStatus(Deref(objs, received[k]))

\* C34 witness: the last snapshot of a failed run shows Completed stages
\* with their details, the Failed stage with the error's message and a
\* stage still Pending
C34_Witness ==
    /\ pc = "threw"
    /\ CountStatus(Last(seen), "completed") >= 2
    /\ CountStatus(Last(seen), "pending") >= 1
    /\ \E i \in DOMAIN Last(seen) :
          /\ Last(seen)[i].status = "error"
          /\ Last(seen)[i].details = <<GitHubError>>

====
